---- MODULE Spec2Model ----
(***************************************************************************)
(* A model of the embedding-based recommender of AI_Lookbook_Studio:       *)
(* PosRecommender / DbPosRecommender (services), the identity key, the     *)
(* diversity signature and _diversify_pick, and the by-positions handler   *)
(* (routes/recommend_positions.py) with its provider chain, per-category   *)
(* allocation, rerank merge and cross-category de-duplication.             *)
(*                                                                         *)
(* Numbers.  Scores are fixed-point: a similarity or a price score is an   *)
(* integer number of 1/Scale, a weight is an integer number of 1/Scale,    *)
(* and a total score (w1*sim + w2*price_score) an integer number of        *)
(* 1/Scale^2.  Embeddings have dimension 1, so that L2 normalisation is    *)
(* exact (x / |x|), and alpha is an integer, so that                       *)
(*   exp(-alpha*|log1p(p) - log1p(q)|) = (min(1+p,1+q)/max(1+p,1+q))^alpha *)
(* is a ratio of integers.  -inf is the value NegInf, below every score.   *)
(* Positions are 0-based as in the code; row p of a sequence is s[p+1].    *)
(***************************************************************************)
EXTENDS Integers, Sequences, FiniteSets, TLC

VARIABLES
    catalog,    \* CatalogService._catalog: the loaded catalog rows
    posRec,     \* PosRecommender: [emb_norm, prices, count] (None = <<>>)
    dbRec,      \* DbPosRecommender: [products, emb_norm, prices]
    extUp,      \* external_recommender: configured and healthy
    extRows,    \* what the external service answers (already mapped rows)
    llmUp,      \* llm_ranker.available()
    gateway,    \* what llm_ranker.rerank does when called
    loads,      \* what the recommenders found when they loaded (their log)
    req,        \* the request being served
    resp,       \* the response of the last operation
    divPool,    \* _diversify_pick: the candidates argument
    divK,       \* _diversify_pick: the k argument
    divOut,     \* _diversify_pick: the returned list
    phase       \* position of the operation in progress

world == <<catalog, posRec, dbRec, extUp, extRows, llmUp, gateway, loads>>

divVars == <<divPool, divK, divOut>>

vars == <<world, req, resp, divVars, phase>>

(* ------------------------------ bounds --------------------------------- *)
\* Rows of a catalog / an embedding file.
MaxN == 3
\* Largest top_k and final_k a request asks for.
MaxK == 3
\* Longest candidate list handed to _diversify_pick.
MaxPool == 3
\* Fixed-point resolution of scores and weights.
Scale == 100

(* ------------------------------ helpers -------------------------------- *)
Min(a, b) == IF a <= b THEN a ELSE b

Max(a, b) == IF a >= b THEN a ELSE b

Abs(a) == IF a < 0 THEN -a ELSE a

Sign(a) == IF a > 0 THEN 1 ELSE IF a < 0 THEN -1 ELSE 0

Range(s) == {s[i] : i \in DOMAIN s}

RECURSIVE Pow(_, _)
Pow(b, e) == IF e = 0 THEN 1 ELSE b * Pow(b, e - 1)

RECURSIVE SeqSum(_)
SeqSum(s) == IF s = <<>> THEN 0 ELSE Head(s) + SeqSum(Tail(s))

\* s[:n]
Take(s, n) == SubSeq(s, 1, Min(n, Len(s)))

\* The mapping f, its values computed once.
Stored(f) == f @@ <<>>

\* All sequences over S of length lo..hi.
SeqsOf(S, lo, hi) == UNION {[1..n -> S] : n \in lo..hi}

\* -inf: below every total score (a total lies in -Scale^2 .. 2*Scale^2).
NegInf == -(4 * Scale * Scale)

\* nan: the mean of no rows, and what is computed from it.  Every score of
\* an array is nan or none is; the order numpy gives to nan scores is open.
NaN == NegInf - 1

\* str(i) and int(s) for positions.
Digits == <<"0", "1", "2", "3", "4", "5", "6", "7">>

Str(i) == Digits[i + 1]

IsNumeric(s) == \E i \in DOMAIN Digits : Digits[i] = s

IntOf(s) == (CHOOSE i \in DOMAIN Digits : Digits[i] = s) - 1

\* str.lower() on the strings of the model.
Lower(s) ==
    CASE s = "Top" -> "top"
      [] s = "Acme" -> "acme"
      [] s = "Shop.com" -> "shop.com"
      [] OTHER -> s

(* ------------------------------ items ---------------------------------- *)
\* A URL as urlparse sees it: netloc, path segments, and the value of the
\* first of the query fields id/pid/productId/product_id/goodsNo/goods_no.
NoUrl == [host |-> "", segs |-> <<>>, qid |-> ""]

LowerUrl(u) == [host |-> Lower(u.host),
                segs |-> [i \in DOMAIN u.segs |-> Lower(u.segs[i])],
                qid |-> Lower(u.qid)]

\* last.split(".")[0]
StripExt(seg) == IF seg = "12.html" THEN "12" ELSE seg

\* re.search(r"\d", last)
HasDigit(seg) == seg \in {"12", "34", "p12"}

\* An item dict (a RecommendationItem-like dict).  Absent / None / "" are
\* all "", an absent pos is NoPos, an absent URL is NoUrl.
NoPos == -1

Item(id, pos, title, price, tags, category, imageUrl, productUrl, score) ==
    [id |-> id, pos |-> pos, title |-> title, price |-> price, tags |-> tags,
     category |-> category, imageUrl |-> imageUrl, productUrl |-> productUrl,
     brandName |-> "", score |-> score]

ProductIdFromUrlRaw(u) ==
    IF u.qid # "" THEN u.qid
    ELSE IF u.segs # <<>> /\ HasDigit(StripExt(u.segs[Len(u.segs)]))
         THEN StripExt(u.segs[Len(u.segs)])
         ELSE ""

LowerTitle(t) == [i \in DOMAIN t |-> Lower(t[i])]

NoKeyPart == [kind |-> "", host |-> "", val |-> "", url |-> NoUrl,
              title |-> <<>>, price |-> 0]

\* _key: id, else product id parsed from the URL (with the host), else the
\* URL, else the image URL, else title + price.
Key(it) ==
    IF it.id # "" THEN [NoKeyPart EXCEPT !.kind = "id", !.val = it.id]
    ELSE IF it.productUrl # NoUrl THEN
        (IF ProductIdFromUrlRaw(it.productUrl) # ""
         THEN [NoKeyPart EXCEPT !.kind = "pid",
                                !.host = Lower(it.productUrl.host),
                                !.val = ProductIdFromUrlRaw(it.productUrl)]
         ELSE [NoKeyPart EXCEPT !.kind = "url", !.url = LowerUrl(it.productUrl)])
    ELSE IF it.imageUrl # "" THEN
        [NoKeyPart EXCEPT !.kind = "img", !.val = Lower(it.imageUrl)]
    ELSE [NoKeyPart EXCEPT !.kind = "tp", !.title = LowerTitle(it.title),
                           !.price = it.price]

\* A subset of COLOR_WORDS.
ColorWords == {"black", "white"}

\* A title is its sequence of tokens; "[sale]" is a bracketed segment.
IsBracketed(tok) == tok \in {"[sale]", "(new)"}

KeepToken(tok) == ~IsBracketed(tok) /\ ~IsNumeric(tok) /\ tok \notin ColorWords

\* tokens[:4]
TitleCoreTokens == 4

TitleCore(t) ==
    LET low == LowerTitle(t)
        toks == SelectSeq(low, KeepToken)
        core == Take(toks, TitleCoreTokens)
    IN  IF core # <<>> THEN core ELSE low

BrandOf(it) ==
    IF it.brandName # "" THEN Lower(it.brandName)
    ELSE IF it.tags # <<>> THEN Lower(it.tags[1]) ELSE ""

\* [seg for seg in path.split("/") if seg][:2]
UrlRootSegs == 2

UrlRoot(it) ==
    IF it.productUrl = NoUrl THEN <<>>
    ELSE <<Lower(it.productUrl.host)>>
         \o Take(LowerUrl(it.productUrl).segs, UrlRootSegs)

Signature(it) == [brand |-> BrandOf(it), core |-> TitleCore(it.title),
                  root |-> UrlRoot(it)]

(* --------------------------- _diversify_pick --------------------------- *)
RECURSIVE FirstPass(_, _, _, _)
\* The first loop: one candidate per signature, in input order.  Yields
\* [out, full]: full when the loop returned from the function (len(out) >= k).
FirstPass(cands, out, seenSig, k) ==
    IF cands = <<>> THEN [out |-> out, full |-> FALSE]
    ELSE LET it == Head(cands)
             sig == Signature(it)
         IN  IF sig \in seenSig THEN FirstPass(Tail(cands), out, seenSig, k)
             ELSE IF Len(out) + 1 >= k
                  THEN [out |-> Append(out, it), full |-> TRUE]
                  ELSE FirstPass(Tail(cands), Append(out, it),
                                 seenSig \cup {sig}, k)

RECURSIVE SecondPass(_, _, _, _)
\* The second loop: fill from the candidates, skipping the keys chosen.
SecondPass(cands, out, seenKeys, k) ==
    IF cands = <<>> \/ Len(out) >= k THEN out
    ELSE LET it == Head(cands)
         IN  IF Key(it) \in seenKeys
             THEN SecondPass(Tail(cands), out, seenKeys, k)
             ELSE SecondPass(Tail(cands), Append(out, it),
                             seenKeys \cup {Key(it)}, k)

\* _diversify_pick without its second loop.
DiversifyPickFirstPassOnly(candidates, k) == FirstPass(candidates, <<>>, {}, k).out

\* candidates[:k] in place of _diversify_pick.
DiversifyPickPlainTake(candidates, k) == Take(candidates, k)

DiversifyPick(candidates, k) ==
    LET first == FirstPass(candidates, <<>>, {}, k)
    IN  IF first.full THEN first.out
        ELSE SecondPass(candidates, first.out,
                        {Key(first.out[i]) : i \in DOMAIN first.out}, k)

(* --------------------------- categories -------------------------------- *)
\* _normalize_category (routes): substring tests on the lowered value, in
\* the order outer, top, pants, shoes, accessories; anything else is
\* passed through.  Given on the vocabulary of the model.
NormalizeCategory(value) ==
    LET v == Lower(value)
    IN  CASE v = "" -> "unknown"
          [] v \in {"outer", "jacket", "coat", "man_outer", "woman_outer"} -> "outer"
          [] v \in {"top", "shirt", "tee", "man_top", "woman_top"} -> "top"
          [] v \in {"pants", "bottom", "skirt", "man_bottom", "woman_bottom",
                    "woman_dress_skirt"} -> "pants"
          [] v \in {"shoes", "sneaker", "man_shoes", "woman_shoes"} -> "shoes"
          [] v \in {"accessories", "access"} -> "accessories"
          [] OTHER -> v

\* _normalize_slot (db_recommender): exact DB category names only.
NormalizeSlot(raw) ==
    LET c == Lower(raw)
    IN  CASE c = "" -> "unknown"
          [] c \in {"man_outer", "woman_outer"} -> "outer"
          [] c \in {"man_top", "woman_top"} -> "top"
          [] c \in {"man_bottom", "woman_bottom"} -> "pants"
          [] c \in {"man_shoes", "woman_shoes"} -> "shoes"
          [] c = "woman_dress_skirt" -> "pants"
          [] OTHER -> c

\* The categories a request may target.
KnownCategories == {"top", "pants", "shoes", "outer", "accessories"}

(* ------------------------------ loading -------------------------------- *)
\* A price of catalog.json that int() rejects (a string such as "n/a");
\* every other price is a number.
Malformed == -1

\* _load without lines 42-43: an entry that carries an id and a pos keeps
\* them.
CatalogLoadKeepingIds(data) ==
    [i \in DOMAIN data |->
        [id |-> IF "id" \in DOMAIN data[i] THEN data[i].id ELSE Str(i - 1),
         pos |-> IF "pos" \in DOMAIN data[i] THEN data[i].pos ELSE i - 1,
         title |-> data[i].title,
         category |-> data[i].category, price |-> data[i].price,
         tags |-> data[i].tags, imageUrl |-> data[i].imageUrl,
         productUrl |-> data[i].productUrl]]

\* CatalogService._load: every entry gets tags/title/category defaults and
\* pos = idx, id = str(idx).  A raw entry is a record
\* [title, category, price, tags, imageUrl, productUrl].
CatalogLoad(data) ==
    [i \in DOMAIN data |->
        [id |-> Str(i - 1), pos |-> i - 1, title |-> data[i].title,
         category |-> data[i].category, price |-> data[i].price,
         tags |-> data[i].tags, imageUrl |-> data[i].imageUrl,
         productUrl |-> data[i].productUrl]]

\* emb / norms[:, None], with a zero norm replaced by 1e-8 (0 / 1e-8 = 0).
NormalizeRows(emb) == [i \in DOMAIN emb |-> Sign(emb[i])]

\* The state of a recommender whose arrays are None.
NoStore == [loaded |-> FALSE, emb_norm |-> <<>>, prices |-> <<>>, count |-> 0]

\* A load that keeps the rows both sides have instead of giving up.
PosLoadTruncating(embFile, cat) ==
    [loaded |-> TRUE,
     emb_norm |-> NormalizeRows(Take(embFile.rows, Len(cat))),
     prices |-> [i \in 1..Min(Len(cat), Len(embFile.rows)) |-> cat[i].price],
     count |-> Min(Len(cat), Len(embFile.rows))]

\* PosRecommender._load_if_available: embFile is [exists, rows]; a price
\* int() rejects raises, and the arrays are None.
PosLoad(embFile, cat) ==
    IF ~embFile.exists THEN NoStore
    ELSE IF Len(cat) # Len(embFile.rows) THEN NoStore
    ELSE IF \E i \in DOMAIN cat : cat[i].price = Malformed THEN NoStore
    ELSE [loaded |-> TRUE, emb_norm |-> NormalizeRows(embFile.rows),
          prices |-> [i \in DOMAIN cat |-> cat[i].price],
          count |-> Len(embFile.rows)]

\* PosRecommender.available
PosAvailable(rec) == rec.loaded /\ rec.count > 0

\* The state of a DbPosRecommender that loaded nothing.
NoDb == [products |-> <<>>, loaded |-> FALSE, emb_norm |-> <<>>, prices |-> <<>>]

\* DbPosRecommender._load_all: rows of public.products ordered by pos, each
\* [pos, N, P, Category, B, U, img], and the embedding rows.
DbLoadAll(rows, mat) ==
    IF Len(rows) # Len(mat) THEN NoDb
    ELSE [products |->
            [i \in DOMAIN rows |->
                [id |-> Str(rows[i].pos), pos |-> rows[i].pos,
                 title |-> rows[i].N, price |-> rows[i].P,
                 tags |-> IF rows[i].B # "" THEN <<rows[i].B>> ELSE <<>>,
                 category |-> NormalizeSlot(rows[i].Category),
                 imageUrl |-> rows[i].img, productUrl |-> rows[i].U]],
          loaded |-> TRUE,
          emb_norm |-> NormalizeRows(mat),
          prices |-> [i \in DOMAIN rows |-> rows[i].P]]

\* DbPosRecommender.available
DbAvailable(rec) == rec.loaded /\ Len(rec.products) > 0

\* What the two loads compared: len(catalog) with emb.shape[0]
\* (pos_recommender.py:52), len(self.products) with mat.shape[0]
\* (db_recommender.py:220, logged when they differ).
NoLoads == [pos |-> [exists |-> FALSE, catalog |-> 0, rows |-> 0],
            db |-> [connected |-> FALSE, products |-> 0, rows |-> 0]]

LoadLog(embFile, cat, connected, rows, mat) ==
    [pos |-> [exists |-> embFile.exists, catalog |-> Len(cat),
              rows |-> Len(embFile.rows)],
     db |-> [connected |-> connected, products |-> Len(rows), rows |-> Len(mat)]]

(* ------------------------------ scoring -------------------------------- *)
\* emb_norm[positions].mean(axis=0) / its norm (0 stays 0): the direction
\* of the sum of the seed rows.
QueryVec(emb_norm, positions) ==
    Sign(SeqSum([i \in DOMAIN positions |-> emb_norm[positions[i] + 1]]))

\* emb_norm @ q, in 1/Scale.
Similarity(emb_norm, q) == [i \in DOMAIN emb_norm |-> emb_norm[i] * q * Scale]

\* exp(-alpha * |log1p(price) - log1p(anchor)|) in 1/Scale, the anchor
\* being the rational anchorNum / anchorDen.
PriceScore(price, anchorNum, anchorDen, alpha) ==
    LET a == (1 + price) * anchorDen
        b == anchorDen + anchorNum
    IN  (Scale * Pow(Min(a, b), alpha)) \div Pow(Max(a, b), alpha)

\* total = w1 * sim + w2 * price_score, in 1/Scale^2.
WeightedTotal(sim, prices, anchorNum, anchorDen, alpha, w1, w2) ==
    [i \in DOMAIN sim |->
        w1 * sim[i] + w2 * PriceScore(prices[i], anchorNum, anchorDen, alpha)]

\* total[np.array(positions)] = -np.inf
ExcludeSeeds(total, positions) ==
    [i \in DOMAIN total |-> IF (i - 1) \in Range(positions) THEN NegInf ELSE total[i]]

\* k = max(1, min(int(top_k), n))
ClampK(top_k, n) == Max(1, Min(top_k, n))

RECURSIVE TopFrom(_, _, _)
\* The lists of k distinct rows of rest in descending score, each row
\* scoring no less than every row left.
TopFrom(total, rest, k) ==
    IF k = 0 \/ rest = {} THEN {<<>>}
    ELSE UNION {{<<p>> \o s : s \in TopFrom(total, rest \ {p}, k - 1)} :
                  p \in {q \in rest : \A o \in rest : total[q + 1] >= total[o + 1]}}

\* The index lists the top-k selection may yield: argsort(-total) when
\* k >= n, else argpartition(-total, k-1)[:k] sorted; numpy leaves the
\* order of equal scores open.
TopIdx(total, k) == TopFrom(total, 0..(Len(total) - 1), k)

\* PosRecommender.recommend, lines 92-110: the score array; with no seed
\* the query vector and the price anchor are means of nothing.
PosTotals(rec, r) ==
    LET q == QueryVec(rec.emb_norm, r.positions)
        sim == Similarity(rec.emb_norm, q)
        seedPrices == [i \in DOMAIN r.positions |-> rec.prices[r.positions[i] + 1]]
    IN  IF r.positions = <<>> THEN [i \in DOMAIN rec.emb_norm |-> NaN]
        ELSE ExcludeSeeds(WeightedTotal(sim, rec.prices, SeqSum(seedPrices),
                                        Len(r.positions), r.alpha, r.w1, r.w2),
                          r.positions)

\* PosRecommender.recommend, lines 119-134: catalog rows to dicts.
PosItems(cat, total, order) ==
    [i \in DOMAIN order |->
        LET p == cat[order[i] + 1]
        IN  Item(p.id, NoPos, p.title, p.price, p.tags,
                 IF p.category # "" THEN p.category ELSE "top",
                 p.imageUrl, p.productUrl, total[order[i] + 1])]

\* PosRecommender.recommend: every result the call may give; cat is the
\* catalog of the moment of the call (catalog[idx] raises IndexError).
PosRecommend(rec, cat, r, top_k) ==
    IF ~PosAvailable(rec) THEN {[status |-> "RuntimeError", items |-> <<>>]}
    ELSE IF \E i \in DOMAIN r.positions :
                r.positions[i] < 0 \/ r.positions[i] >= rec.count
         THEN {[status |-> "ValueError", items |-> <<>>]}
    ELSE LET total == PosTotals(rec, r)
         IN  {IF \E i \in DOMAIN order : order[i] >= Len(cat)
              THEN [status |-> "IndexError", items |-> <<>>]
              ELSE [status |-> "ok", items |-> PosItems(cat, total, order)] :
                order \in TopIdx(total, ClampK(top_k, rec.count))}

\* DbPosRecommender._calculate_similarity_scores: the price anchor is the
\* mean price of all products.
CalculateSimilarityScores(rec, q, alpha, w1, w2) ==
    WeightedTotal(Similarity(rec.emb_norm, q), rec.prices,
                  SeqSum(rec.prices), Len(rec.prices), alpha, w1, w2)

\* DbPosRecommender.recommend, lines 298-307; with no seed the query vector
\* is the mean of nothing.
DbTotals(rec, r) ==
    IF r.positions = <<>> THEN [i \in DOMAIN rec.emb_norm |-> NaN]
    ELSE ExcludeSeeds(CalculateSimilarityScores(rec,
                                                QueryVec(rec.emb_norm, r.positions),
                                                r.alpha, r.w1, r.w2),
                      r.positions)

\* DbPosRecommender.recommend, lines 315-320: product rows plus the score.
DbItems(products, total, order) ==
    [i \in DOMAIN order |->
        LET p == products[order[i] + 1]
        IN  Item(p.id, p.pos, p.title, p.price, p.tags, p.category,
                 p.imageUrl, p.productUrl, total[order[i] + 1])]

\* DbPosRecommender.recommend: every result the call may give.
DbRecommend(rec, r, top_k) ==
    IF ~DbAvailable(rec) THEN {[status |-> "RuntimeError", items |-> <<>>]}
    ELSE IF \E i \in DOMAIN r.positions :
                r.positions[i] < 0 \/ r.positions[i] >= Len(rec.products)
         THEN {[status |-> "ValueError", items |-> <<>>]}
    ELSE LET total == DbTotals(rec, r)
         IN  {[status |-> "ok", items |-> DbItems(rec.products, total, order)] :
                order \in TopIdx(total, ClampK(top_k, Len(rec.products)))}

(* ------------------------------ inputs --------------------------------- *)
\* Longest seed list of a request.
MaxSeeds == 2

UrlA == [host |-> "Shop.com", segs |-> <<"goods", "12.html">>, qid |-> ""]

\* A product as the data sources hold it, with its embedding row.
Fixture(title, category, price, emb) ==
    [title |-> title, category |-> category, price |-> price, emb |-> emb,
     tags |-> <<"Acme">>, imageUrl |-> "", productUrl |-> NoUrl]

\* The raw catalog.json entries, the embedding file and the DB tables that
\* hold the products fs (a sequence of fixtures).
CatalogData(fs) ==
    [i \in DOMAIN fs |->
        [title |-> fs[i].title, category |-> fs[i].category,
         price |-> fs[i].price, tags |-> fs[i].tags,
         imageUrl |-> fs[i].imageUrl, productUrl |-> fs[i].productUrl]]

EmbRows(fs) == [i \in DOMAIN fs |-> fs[i].emb]

DbCategoryName(category) ==
    CASE NormalizeCategory(category) = "top" -> "man_top"
      [] NormalizeCategory(category) = "outer" -> "woman_outer"
      [] OTHER -> category

DbRows(fs) ==
    [i \in DOMAIN fs |->
        [pos |-> i - 1, N |-> fs[i].title, P |-> fs[i].price,
         Category |-> DbCategoryName(fs[i].category), B |-> fs[i].tags[1],
         U |-> fs[i].productUrl, img |-> fs[i].imageUrl]]

\* Scoring parameters of a request: alpha, and w1, w2 in 1/Scale.
ParamSets == {[alpha |-> 0, w1 |-> Scale, w2 |-> 0],
              [alpha |-> 1, w1 |-> Scale - 3, w2 |-> 3]}

\* A PositionsRequest.  categories: the strings given (<<>>: none);
\* items: the category of each SelectedItem given ("": none; <<>>: no
\* items); use_llm_rerank: "true", "false" or "unset" (None).
NoReq == [positions |-> <<>>, top_k |-> 1, final_k |-> 1, alpha |-> 0,
          w1 |-> 0, w2 |-> 0, categories |-> <<>>, items |-> <<>>,
          use_llm_rerank |-> "false"]

\* What an operation returned or raised.  For the by-positions handler
\* also its locals at the end: target_cats, cat_pool_map, final_by_cat,
\* the provider that gave the pool and whether llm_ranker.rerank was called.
NoResp == [op |-> "none", status |-> "none", items |-> <<>>,
           target_cats |-> <<>>, pools |-> <<>>, by_cat |-> <<>>,
           source |-> "none", reranked |-> FALSE]

Returned(op, status, items) ==
    [NoResp EXCEPT !.op = op, !.status = status, !.items = items]

(* ----------------------- external recommender -------------------------- *)
\* The external service (recommending/back_example.py) over its own table
\* extRows, each row [pos, Product_U, Product_Desc, Product_P, Category,
\* emb]: the same blend, the price anchored at the seed mean, and
\* argpartition(-total, kth=min(top_k, n-1))[:top_k].
ExtStore(rows) ==
    [loaded |-> TRUE, emb_norm |-> NormalizeRows([i \in DOMAIN rows |-> rows[i].emb]),
     prices |-> [i \in DOMAIN rows |-> rows[i].Product_P], count |-> Len(rows)]

\* float(row.get("score") or 0.0): the -inf of a seed row does not pass
\* through JSON; the service fails (HTTPError) or sends null, read as 0.0.
ExtScore(score) == IF score = NegInf THEN 0 ELSE score

\* ExternalRecommender.recommend_by_positions, lines 52-67: the mapping of
\* the rows of the answer.
ExtItems(rows, total, order) ==
    [i \in DOMAIN order |->
        LET row == rows[order[i] + 1]
        IN  Item(Str(row.pos), NoPos, row.Product_Desc, row.Product_P, <<>>,
                 IF row.Category # "" THEN row.Category ELSE "top",
                 "", row.Product_U, ExtScore(total[order[i] + 1]))]

\* The external service dropping the seeds out of range instead of
\* answering 400.
ExtRecommendClamping(rows, r, top_k) ==
    LET kept == [r EXCEPT !.positions =
                    SelectSeq(r.positions, LAMBDA p : 0 <= p /\ p < Len(rows))]
    IN  {[status |-> "ok",
          items |-> ExtItems(rows, PosTotals(ExtStore(rows), kept), order)] :
            order \in TopIdx(PosTotals(ExtStore(rows), kept), Min(top_k, Len(rows)))}

\* ExternalRecommender.recommend_by_positions: the rows mapped, or the
\* HTTP error raised (status 400 on a seed out of range, 422 on no
\* query_positions at all, or the transport).
ExtRecommend(rows, r, top_k) ==
    {[status |-> "HTTPError", items |-> <<>>]} \cup
    (IF rows = <<>> \/ r.positions = <<>> \/ \E i \in DOMAIN r.positions :
            r.positions[i] < 0 \/ r.positions[i] >= Len(rows)
     THEN {}
     ELSE LET total == PosTotals(ExtStore(rows), r)
          IN  {[status |-> "ok", items |-> ExtItems(rows, total, order)] :
                 order \in TopIdx(total, Min(top_k, Len(rows)))})

(* ----------------------- recommend_by_positions ------------------------ *)
RECURSIVE OrderedUnique(_, _)
\* for c in s: if c not in out: out.append(c)
OrderedUnique(s, out) ==
    IF s = <<>> THEN out
    ELSE OrderedUnique(Tail(s), IF Head(s) \in Range(out) THEN out
                                ELSE Append(out, Head(s)))

\* Counter(cats): max(cnt.items(), key=count)[0], the first of the most
\* frequent in order of first occurrence.
Majority(cats) ==
    LET count(c) == Cardinality({i \in DOMAIN cats : cats[i] = c})
        first(c) == CHOOSE i \in DOMAIN cats :
                        cats[i] = c /\ \A j \in 1..(i - 1) : cats[j] # c
    IN  CHOOSE c \in Range(cats) :
            \A d \in Range(cats) :
                count(d) < count(c) \/ (count(d) = count(c) /\ first(c) <= first(d))

\* _infer_target_categories_from_positions
InferTargetCategoriesFromPositions(positions, cat) ==
    LET inRange == SelectSeq(positions, LAMBDA p : 0 <= p /\ p < Len(cat))
        cats == [i \in DOMAIN inRange |->
                    NormalizeCategory(cat[inRange[i] + 1].category)]
    IN  IF cats = <<>> THEN <<>>
        ELSE OrderedUnique(<<Majority(cats)>> \o cats, <<>>)

\* Lines 193-205: the target categories of a request.
TargetCats(r) ==
    LET raw ==
          IF r.categories # <<>>
          THEN [i \in DOMAIN r.categories |-> NormalizeCategory(r.categories[i])]
          ELSE IF r.items # <<>>
          THEN OrderedUnique(
                 [i \in DOMAIN SelectSeq(r.items, LAMBDA c : c # "") |->
                    NormalizeCategory(SelectSeq(r.items, LAMBDA c : c # "")[i])],
                 <<>>)
          ELSE InferTargetCategoriesFromPositions(r.positions, catalog)
    IN  SelectSeq(raw, LAMBDA c : c \in KnownCategories)

\* Lines 207-268: the provider chain.  Each outcome is
\* [status, items, source]: a pool, or the HTTP error raised.
PoolFrom(source, items) == [status |-> "pool", items |-> items, source |-> source]

HttpError(code) == [status |-> code, items |-> <<>>, source |-> "none"]

ExtStage(r) ==
    IF extUp
    THEN {IF e.status = "ok" THEN PoolFrom("ext", e.items) ELSE HttpError("500") :
            e \in ExtRecommend(extRows, r, r.top_k)}
    ELSE {HttpError("503")}

PosStage(r) ==
    IF PosAvailable(posRec)
    THEN UNION {IF p.status = "ok" THEN {PoolFrom("pos", p.items)}
                ELSE IF extUp
                THEN {IF e.status = "ok" THEN PoolFrom("ext", e.items)
                      ELSE HttpError("500") :
                        e \in ExtRecommend(extRows, r, r.top_k)}
                ELSE {HttpError("500")} :
                  p \in PosRecommend(posRec, catalog, r, r.top_k)}
    ELSE ExtStage(r)

\* Lines 207-268 with the file-based recommender consulted before the
\* DB-backed one.
ProviderChainFileFirst(r) ==
    IF PosAvailable(posRec)
    THEN UNION {IF p.status = "ok" THEN {PoolFrom("pos", p.items)}
                ELSE IF DbAvailable(dbRec)
                THEN {IF d.status = "ok" THEN PoolFrom("db", d.items)
                      ELSE HttpError("500") : d \in DbRecommend(dbRec, r, r.top_k)}
                ELSE ExtStage(r) :
                  p \in PosRecommend(posRec, catalog, r, r.top_k)}
    ELSE IF DbAvailable(dbRec)
    THEN UNION {IF d.status = "ok" THEN {PoolFrom("db", d.items)} ELSE ExtStage(r) :
                  d \in DbRecommend(dbRec, r, r.top_k)}
    ELSE ExtStage(r)

ProviderChain(r) ==
    IF DbAvailable(dbRec)
    THEN UNION {IF d.status = "ok" THEN {PoolFrom("db", d.items)} ELSE PosStage(r) :
                  d \in DbRecommend(dbRec, r, r.top_k)}
    ELSE PosStage(r)

\* booster_k = max(req.top_k * 5, 200)
BoosterFactor == 5

BoosterFloor == 200

BoosterK(r) == Max(r.top_k * BoosterFactor, BoosterFloor)

\* Lines 312-328: what the boosting re-query gives (the same for every
\* category of a request: the call and its arguments are the same).
Boosted(r) ==
    IF DbAvailable(dbRec) THEN DbRecommend(dbRec, r, BoosterK(r))
    ELSE IF PosAvailable(posRec) THEN PosRecommend(posRec, catalog, r, BoosterK(r))
    ELSE {[status |-> "ok", items |-> <<>>]}

OfCategory(items, cat) ==
    SelectSeq(items, LAMBDA it : NormalizeCategory(it.category) = cat)

RECURSIVE MergeUnique(_, _, _, _)
\* Lines 332-339: append the unseen items of more, until cap.
MergeUnique(cat_pool, more, seen, cap) ==
    IF more = <<>> THEN cat_pool
    ELSE LET it == Head(more)
             fresh == Key(it) \notin seen
             grown == IF fresh THEN Append(cat_pool, it) ELSE cat_pool
         IN  IF Len(grown) >= cap THEN grown
             ELSE MergeUnique(grown, Tail(more),
                              IF fresh THEN seen \cup {Key(it)} ELSE seen, cap)

\* if len(cat_pool) >= req.final_k * 3: break
BoostCapFactor == 3

\* A booster whose exception is not caught per category: the category
\* loses its candidates.
BoostedPoolFatal(pool, boosted, cat, r) ==
    LET cat_pool == OfCategory(pool, cat)
    IN  IF Len(cat_pool) < r.final_k /\ boosted.status # "ok" THEN <<>>
        ELSE IF Len(cat_pool) < r.final_k /\ boosted.items # <<>>
        THEN MergeUnique(cat_pool, OfCategory(boosted.items, cat),
                         {Key(cat_pool[i]) : i \in DOMAIN cat_pool},
                         r.final_k * BoostCapFactor)
        ELSE cat_pool

\* Lines 306-341: the pool of one category, boosted once when short; a
\* booster that raised, or gave nothing, leaves it as it is.
BoostedPool(pool, boosted, cat, r) ==
    LET cat_pool == OfCategory(pool, cat)
    IN  IF Len(cat_pool) < r.final_k /\ boosted.status = "ok" /\ boosted.items # <<>>
        THEN MergeUnique(cat_pool, OfCategory(boosted.items, cat),
                         {Key(cat_pool[i]) : i \in DOMAIN cat_pool},
                         r.final_k * BoostCapFactor)
        ELSE cat_pool

RECURSIVE InsertDesc(_, _)
InsertDesc(sorted, it) ==
    IF sorted = <<>> THEN <<it>>
    ELSE IF Head(sorted).score >= it.score
         THEN <<Head(sorted)>> \o InsertDesc(Tail(sorted), it)
         ELSE <<it>> \o sorted

RECURSIVE SortByScoreDesc(_, _)
\* list.sort(key=score, reverse=True): stable; call with done = <<>>.
SortByScoreDesc(items, done) ==
    IF items = <<>> THEN done
    ELSE SortByScoreDesc(Tail(items), InsertDesc(done, Head(items)))

\* Lines 357-367: the dict built from a catalog row.
BackfillItem(p, cat) ==
    Item(p.id, p.pos, p.title, p.price, p.tags,
         IF p.category # "" THEN p.category ELSE cat,
         p.imageUrl, p.productUrl, 0)

RECURSIVE Backfill(_, _, _, _, _)
\* Lines 356-373: append the catalog rows whose key is not in seen (the
\* keys of the pool before the loop), until final_k; int(price) raising
\* ends the loop with what was appended so far (except Exception: pass).
Backfill(cat_pool, rows, seen, final_k, cat) ==
    IF rows = <<>> THEN cat_pool
    ELSE IF Head(rows).price = Malformed THEN cat_pool
    ELSE LET temp == BackfillItem(Head(rows), cat)
         IN  IF Key(temp) \in seen
             THEN Backfill(cat_pool, Tail(rows), seen, final_k, cat)
             ELSE IF Len(cat_pool) + 1 >= final_k THEN Append(cat_pool, temp)
                  ELSE Backfill(Append(cat_pool, temp), Tail(rows), seen,
                                final_k, cat)

\* Lines 342-375: the category pool, sorted, then filled from the catalog;
\* <<>> when the boosted pool is empty (the category is skipped).
CatPool(pool, boosted, cat, r) ==
    LET cat_pool == BoostedPool(pool, boosted, cat, r)
        sorted == SortByScoreDesc(cat_pool, <<>>)
    IN  IF cat_pool = <<>> THEN <<>>
        ELSE IF Len(sorted) < r.final_k
             THEN Backfill(sorted, OfCategory(catalog, cat),
                           {Key(sorted[i]) : i \in DOMAIN sorted}, r.final_k, cat)
             ELSE sorted

\* use_llm = req.use_llm_rerank if req.use_llm_rerank is not None
\*           else llm_ranker.available();  if use_llm and llm_ranker.available()
UseRerank(r) ==
    (IF r.use_llm_rerank = "unset" THEN llmUp ELSE r.use_llm_rerank = "true")
    /\ llmUp

\* cat_pool[: min(len(cat_pool), max(req.final_k * 5, 20))]
CandFactor == 5

CandFloor == 20

RerankCand(cat_pool, r) ==
    Take(cat_pool, Min(Len(cat_pool), Max(r.final_k * CandFactor, CandFloor)))

Reverse(s) == [i \in DOMAIN s |-> s[Len(s) + 1 - i]]

\* An id that no product of the model has.
UnknownId == Digits[Len(Digits)]

\* llm_ranker.rerank(analysis, {cat: cand}, top_k).get(cat) or []: the
\* ordered ids the gateway answers for the category.
\* "reverse": every candidate id, last first; "repeat": the last candidate
\* id twice; "unknown": an id no candidate has, then the last candidate id.
RerankIds(cand) ==
    CASE gateway = "reverse" -> Reverse([i \in DOMAIN cand |-> cand[i].id])
      [] gateway = "repeat" /\ cand # <<>> ->
            <<cand[Len(cand)].id, cand[Len(cand)].id>>
      [] gateway = "unknown" /\ cand # <<>> -> <<UnknownId, cand[Len(cand)].id>>
      [] OTHER -> <<>>

\* ids_map = {str(it.get("id")): it for it in cat_pool}: the last wins.
IdsMapGet(cat_pool, id) ==
    cat_pool[CHOOSE i \in DOMAIN cat_pool :
                cat_pool[i].id = id /\ \A j \in (i + 1)..Len(cat_pool) : cat_pool[j].id # id]

RECURSIVE FillRanked(_, _, _)
\* Lines 384-388: append the pool items not yet ranked, until final_k.
FillRanked(ranked, cat_pool, final_k) ==
    IF cat_pool = <<>> THEN ranked
    ELSE LET grown == IF Head(cat_pool) \in Range(ranked) THEN ranked
                      ELSE Append(ranked, Head(cat_pool))
         IN  IF Len(grown) >= final_k THEN grown
             ELSE FillRanked(grown, Tail(cat_pool), final_k)

\* The merge without the cut at final_k: the whole pool goes to the pick.
RankedWholePool(cat_pool, r) == cat_pool

\* Lines 379-388: the gateway's order rebuilt from the pool, then filled.
Ranked(cat_pool, r) ==
    LET order_ids == SelectSeq(RerankIds(RerankCand(cat_pool, r)),
                               LAMBDA id : \E i \in DOMAIN cat_pool : cat_pool[i].id = id)
        ranked == [i \in DOMAIN order_ids |-> IdsMapGet(cat_pool, order_ids[i])]
    IN  IF Len(ranked) < r.final_k THEN FillRanked(ranked, cat_pool, r.final_k)
        ELSE ranked

\* Lines 376-391: cat_pick_map[cat].
CatPick(cat_pool, r) ==
    IF cat_pool = <<>> THEN <<>>
    ELSE IF UseRerank(r) THEN DiversifyPick(Ranked(cat_pool, r), r.final_k)
    ELSE DiversifyPick(cat_pool, r.final_k)

RECURSIVE KeepPicks(_, _, _, _)
\* Lines 400-407: [list, seen] after the picks of one category.
KeepPicks(picks, list, seen, final_k) ==
    IF picks = <<>> THEN [list |-> list, seen |-> seen]
    ELSE IF Key(Head(picks)) \in seen
         THEN KeepPicks(Tail(picks), list, seen, final_k)
         ELSE IF Len(list) + 1 >= final_k
              THEN [list |-> Append(list, Head(picks)),
                    seen |-> seen \cup {Key(Head(picks))}]
              ELSE KeepPicks(Tail(picks), Append(list, Head(picks)),
                             seen \cup {Key(Head(picks))}, final_k)

RECURSIVE TopUp(_, _, _, _)
\* Lines 413-420: [list, seen] after the top-up of one category.
TopUp(pool_cat, list, seen, final_k) ==
    IF pool_cat = <<>> \/ Len(list) >= final_k THEN [list |-> list, seen |-> seen]
    ELSE IF Key(Head(pool_cat)) \in seen
         THEN TopUp(Tail(pool_cat), list, seen, final_k)
         ELSE TopUp(Tail(pool_cat), Append(list, Head(pool_cat)),
                    seen \cup {Key(Head(pool_cat))}, final_k)

RECURSIVE FirstPassCats(_, _, _, _, _)
\* Lines 398-407 over target_cats: [by_cat, seen].
FirstPassCats(cats, picks, by_cat, seen, final_k) ==
    IF cats = <<>> THEN [by_cat |-> by_cat, seen |-> seen]
    ELSE LET cat == Head(cats)
             kept == KeepPicks(picks[cat], by_cat[cat], seen, final_k)
         IN  FirstPassCats(Tail(cats), picks, [by_cat EXCEPT ![cat] = kept.list],
                           kept.seen, final_k)

RECURSIVE SecondPassCats(_, _, _, _, _)
\* Lines 409-420 over target_cats: [by_cat, seen].
SecondPassCats(cats, pools, by_cat, seen, final_k) ==
    IF cats = <<>> THEN [by_cat |-> by_cat, seen |-> seen]
    ELSE LET cat == Head(cats)
             kept == TopUp(pools[cat], by_cat[cat], seen, final_k)
         IN  SecondPassCats(Tail(cats), pools, [by_cat EXCEPT ![cat] = kept.list],
                            kept.seen, final_k)

RECURSIVE Flatten(_, _)
\* Lines 431-433: for cat in target_cats: final_items.extend(final_by_cat[cat])
Flatten(cats, by_cat) ==
    IF cats = <<>> THEN <<>>
    ELSE by_cat[Head(cats)] \o Flatten(Tail(cats), by_cat)

\* Lines 394-420: final_by_cat of a request with target categories.
FinalByCat(cats, pools, picks, final_k) ==
    LET empty == [c \in KnownCategories |-> <<>>]
        first == FirstPassCats(cats, picks, empty, {}, final_k)
    IN  SecondPassCats(cats, pools, first.by_cat, first.seen, final_k).by_cat

\* Lines 442-450: pos derived from a numeric id when missing.
NormItem(it) ==
    IF it.pos = NoPos /\ IsNumeric(it.id) THEN [it EXCEPT !.pos = IntOf(it.id)]
    ELSE it

NormItems(items) == [i \in DOMAIN items |-> NormItem(items[i])]

\* Lines 301-440 for one pool and one answer of the boosting re-query.
Allocate(po, boosted, r) ==
    LET cats == TargetCats(r)
        pools == Stored([c \in KnownCategories |->
                           IF c \in Range(cats)
                           THEN CatPool(po.items, boosted, c, r) ELSE <<>>])
        called == UseRerank(r) /\ \E c \in Range(cats) : pools[c] # <<>>
        picks == Stored([c \in KnownCategories |-> CatPick(pools[c], r)])
        by_cat == FinalByCat(cats, pools, picks, r.final_k)
    IN  IF cats = <<>>
        THEN [NoResp EXCEPT !.op = "by_positions", !.status = "200",
                !.items = NormItems(Take(SortByScoreDesc(po.items, <<>>), r.final_k)),
                !.source = po.source]
        ELSE IF called /\ gateway = "raise"
        THEN [NoResp EXCEPT !.op = "by_positions", !.status = "500",
                !.target_cats = cats, !.source = po.source, !.reranked = TRUE]
        ELSE [NoResp EXCEPT !.op = "by_positions", !.status = "200",
                !.items = NormItems(Flatten(cats, by_cat)),
                !.target_cats = cats, !.pools = pools, !.by_cat = by_cat,
                !.source = po.source, !.reranked = called]

\* recommend_by_positions: every response the request may get.
RecommendByPositions(r) ==
    UNION {IF po.status # "pool"
           THEN {[NoResp EXCEPT !.op = "by_positions", !.status = po.status]}
           ELSE {Allocate(po, b, r) : b \in Boosted(r)} :
             po \in ProviderChain(r)}

(* ------------------- the by-positions handler -------------------------- *)
HandlerFixtures == <<Fixture(<<"tee">>, "top", 10, 1),
                     Fixture(<<"polo">>, "shirt", 20, 1),
                     Fixture(<<"coat">>, "outer", 30, -2)>>

\* The product lists of the handler's worlds: 1..MaxN fixtures, listed in
\* the order of HandlerFixtures (a product may repeat).
HandlerShelves ==
    {[i \in DOMAIN idx |-> HandlerFixtures[idx[i]]] :
        idx \in {s \in SeqsOf(DOMAIN HandlerFixtures, 1, MaxN) :
                    \A i \in 1..(Len(s) - 1) : s[i] <= s[i + 1]}}

\* The table of the external service holding the products fs.
ExtTable(fs) ==
    [i \in DOMAIN fs |->
        [pos |-> i - 1, Product_U |-> fs[i].productUrl,
         Product_Desc |-> fs[i].title, Product_P |-> fs[i].price,
         Category |-> DbCategoryName(fs[i].category), emb |-> fs[i].emb]]

\* Which providers are up: the DB-backed, the file-based, the external one.
\* Each alone, none, and all three.
ProviderConfigs ==
    {c \in [db : BOOLEAN, pos : BOOLEAN, ext : BOOLEAN] :
        Cardinality({f \in {"db", "pos", "ext"} : c[f]}) # 2}

\* The categories and the items of a request.
TargetInputs ==
    {[categories |-> <<>>, items |-> <<>>],
     [categories |-> <<"top">>, items |-> <<>>],
     [categories |-> <<"top", "shirt">>, items |-> <<>>],
     [categories |-> <<"hat">>, items |-> <<>>],
     [categories |-> <<"outer", "Top">>, items |-> <<>>],
     [categories |-> <<>>, items |-> <<"outer", "">>]}

\* Seed lists: strictly increasing positions in [0, n).
SeedLists(n) ==
    {ps \in SeqsOf(0..(n - 1), 1, MaxSeeds) :
        \A i \in 1..(Len(ps) - 1) : ps[i] < ps[i + 1]}

\* A world holding the products fs with the providers of cfg up.
InitWorld(fs, cfg) ==
    /\ catalog = CatalogLoad(CatalogData(fs))
    /\ posRec = PosLoad([exists |-> cfg.pos, rows |-> EmbRows(fs)],
                        CatalogLoad(CatalogData(fs)))
    /\ dbRec = IF cfg.db THEN DbLoadAll(DbRows(fs), EmbRows(fs)) ELSE NoDb
    /\ extUp = cfg.ext
    /\ extRows = ExtTable(fs)
    /\ loads = LoadLog([exists |-> cfg.pos, rows |-> EmbRows(fs)],
                       CatalogLoad(CatalogData(fs)), cfg.db, DbRows(fs), EmbRows(fs))

\* A request on a catalog of n rows: top_k in topKs and final_k <= top_k,
\* or top_k = 1 with final_k = MaxK (a pool shorter than final_k).
InitRequest(n, use, topKs, targets) ==
    \E ps \in SeedLists(n), k \in topKs, fk \in 1..MaxK, t \in targets :
        /\ fk <= k \/ (k = 1 /\ fk = MaxK)
        /\ req = [NoReq EXCEPT !.positions = ps, !.top_k = k, !.final_k = fk,
                               !.alpha = 1, !.w1 = Scale - 3, !.w2 = 3,
                               !.categories = t.categories, !.items = t.items,
                               !.use_llm_rerank = use]

\* Requests served without a rerank gateway, by every provider setting.
Init ==
    /\ \E fs \in HandlerShelves, cfg \in ProviderConfigs :
          InitWorld(fs, cfg) /\ InitRequest(Len(fs), "unset", 1..MaxK, TargetInputs)
    /\ llmUp = FALSE /\ gateway = "none"
    /\ resp = NoResp
    /\ divPool = <<>> /\ divK = 1 /\ divOut = <<>>
    /\ phase = "request"

\* What llm_ranker.rerank does: raise, answer None, answer the candidate
\* ids in reverse order.
GatewayModes == {"raise", "none", "reverse"}

\* The request's use_llm_rerank, the gateway's availability and what a
\* call of it does.
RerankSettings ==
    {[use |-> "true", up |-> TRUE, mode |-> m] : m \in GatewayModes} \cup
    {[use |-> "unset", up |-> TRUE, mode |-> "reverse"],
     [use |-> "true", up |-> FALSE, mode |-> "none"],
     [use |-> "false", up |-> TRUE, mode |-> "reverse"]}

\* Requests served by the DB-backed or the file-based provider with the
\* rerank gateway up or down.
InitRerank ==
    /\ \E fs \in HandlerShelves,
          cfg \in {c \in ProviderConfigs : ~c.ext /\ (c.db # c.pos)},
          rs \in RerankSettings :
          /\ InitWorld(fs, cfg) /\ InitRequest(Len(fs), rs.use, {MaxK},
                                       {t \in TargetInputs : Len(t.categories) # 1})
          /\ llmUp = rs.up /\ gateway = rs.mode
    /\ resp = NoResp
    /\ divPool = <<>> /\ divK = 1 /\ divOut = <<>>
    /\ phase = "request"

\* POST /api/recommend/by-positions
ByPositions ==
    /\ phase = "request"
    /\ \E out \in RecommendByPositions(req) : resp' = out
    /\ phase' = "done"
    /\ UNCHANGED <<world, req, divVars>>

Next == ByPositions

Spec == Init /\ [][Next]_vars

SpecRerank == InitRerank /\ [][Next]_vars

(* ---------------- the recommenders called directly --------------------- *)
\* Prices far enough apart for the mean of the catalog and the mean of the
\* seeds to order two rows differently.
RecFixtures == {Fixture(<<"tee">>, "top", p, e) : p \in {10, 100}, e \in {-2, 1}}

InitRec ==
    /\ \E fs \in SeqsOf(RecFixtures, 1, MaxN) :
          /\ catalog = CatalogLoad(CatalogData(fs))
          /\ posRec = PosLoad([exists |-> TRUE, rows |-> EmbRows(fs)],
                              CatalogLoad(CatalogData(fs)))
          /\ dbRec = DbLoadAll(DbRows(fs), EmbRows(fs))
          /\ loads = LoadLog([exists |-> TRUE, rows |-> EmbRows(fs)],
                             CatalogLoad(CatalogData(fs)), TRUE, DbRows(fs),
                             EmbRows(fs))
          /\ \E ps \in SeqsOf(0..(Len(fs) - 1), 1, MaxSeeds), k \in 1..MaxK,
                par \in ParamSets :
                req = [NoReq EXCEPT !.positions = ps, !.top_k = k,
                                    !.alpha = par.alpha, !.w1 = par.w1,
                                    !.w2 = par.w2]
    /\ extUp = FALSE /\ extRows = <<>> /\ llmUp = FALSE /\ gateway = "none"
    /\ resp = NoResp
    /\ divPool = <<>> /\ divK = 1 /\ divOut = <<>>
    /\ phase = "rec_call"

\* A call of PosRecommender.recommend(positions, top_k, alpha, w1, w2).
PosRecommendCall ==
    /\ phase = "rec_call"
    /\ \E r \in PosRecommend(posRec, catalog, req, req.top_k) :
          resp' = Returned("pos", r.status, r.items)
    /\ phase' = "rec_done"
    /\ UNCHANGED <<world, req, divVars>>

\* A call of DbPosRecommender.recommend(positions, top_k, alpha, w1, w2).
DbRecommendCall ==
    /\ phase = "rec_call"
    /\ \E r \in DbRecommend(dbRec, req, req.top_k) :
          resp' = Returned("db", r.status, r.items)
    /\ phase' = "rec_done"
    /\ UNCHANGED <<world, req, divVars>>

NextRec == PosRecommendCall \/ DbRecommendCall

SpecRec == InitRec /\ [][NextRec]_vars

(* --------------------- _diversify_pick called directly ----------------- *)
DivItems ==
    {Item(id, NoPos, t, 10, <<"Acme">>, "top", "", u, 0) :
        id \in {"", "1", "2"}, t \in {<<"tee">>, <<"tee", "black">>},
        u \in {NoUrl, UrlA}}

InitDiv ==
    /\ catalog = <<>> /\ posRec = NoStore /\ dbRec = NoDb /\ loads = NoLoads
    /\ extUp = FALSE /\ extRows = <<>> /\ llmUp = FALSE /\ gateway = "none"
    /\ req = NoReq /\ resp = NoResp
    /\ divPool \in SeqsOf(DivItems, 0, MaxPool)
    /\ divK \in 1..MaxK
    /\ divOut = <<>>
    /\ phase = "div_call"

\* A call of _diversify_pick(divPool, divK).
DiversifyCall ==
    /\ phase = "div_call"
    /\ divOut' = DiversifyPick(divPool, divK)
    /\ phase' = "div_done"
    /\ UNCHANGED <<world, req, resp, divPool, divK>>

NextDiv == DiversifyCall

SpecDiv == InitDiv /\ [][NextDiv]_vars

(* ------------- recommend_from_upload / recommend_from_fitting ---------- *)
\* A style analysis: the list-valued keys the handlers and find_similar
\* read (captions, detected_style and colors are absent).
NoAnalysis == [tags |-> <<>>, top |-> <<>>, pants |-> <<>>, shoes |-> <<>>,
               outer |-> <<>>, overall_style |-> <<>>, categories |-> <<>>]

\* A RecommendationRequest / RecommendationFromFittingRequest.  clothing:
\* the slots of clothingItems holding an image; selected: the entries
\* [slot, value] of selectedProductIds in insertion order; ai: whether the
\* Azure OpenAI analysis was made, and what it answered; the options
\* minPrice, maxPrice and excludeTags are None.
NoUpload == [person |-> FALSE, clothing |-> {}, selected |-> <<>>,
             maxPerCategory |-> 1, use_llm_rerank |-> "unset",
             ai |-> [given |-> FALSE, analysis |-> NoAnalysis]]

\* recommend_from_upload, lines 324-341: the AI analysis, else the fallback.
UploadAnalysis(r) ==
    IF r.ai.given /\ r.ai.analysis # NoAnalysis THEN r.ai.analysis
    ELSE [NoAnalysis EXCEPT
            !.overall_style = IF r.person THEN <<"casual", "everyday">> ELSE <<>>,
            !.top = IF "top" \in r.clothing THEN <<"top", "basic", "casual">> ELSE <<>>,
            !.pants = IF "pants" \in r.clothing
                      THEN <<"pants", "basic", "casual">> ELSE <<>>,
            !.shoes = IF "shoes" \in r.clothing
                      THEN <<"shoes", "basic", "casual">> ELSE <<>>,
            !.outer = IF "outer" \in r.clothing
                      THEN <<"outer", "basic", "casual">> ELSE <<>>]

\* recommend_from_fitting, lines 417-427.
FittingAnalysis(r) ==
    IF r.ai.given THEN r.ai.analysis
    ELSE [NoAnalysis EXCEPT !.overall_style = <<"casual", "relaxed">>,
                            !.categories = <<"top", "pants", "shoes", "outer">>]

\* _candidate_budget: base * 4
BudgetFactor == 4

CandidateBudget(maxPerCategory) == maxPerCategory * BudgetFactor

\* find_similar, lines 154-159: the keywords, in the order of the keys.
AnalysisKeywords(analysis) ==
    analysis.tags \o analysis.top \o analysis.pants \o analysis.shoes
    \o analysis.overall_style \o analysis.categories

\* _score_product: exact_weight (1.0) for each keyword found in
\* "title tags".lower(); the keywords of the model are single words, for
\* which the partial match adds nothing.
ScoreProduct(product, keywords) ==
    LET words == Range(LowerTitle(product.title)) \cup Range(LowerTitle(product.tags))
    IN  Cardinality({i \in DOMAIN keywords : keywords[i] \in words})

\* search, lines 131-139: the copy of a product, with its score and pos.
SearchHit(product, s) ==
    Item(product.id, IF IsNumeric(product.id) THEN IntOf(product.id) ELSE NoPos,
         product.title, product.price, product.tags, product.category,
         product.imageUrl, product.productUrl, s)

\* CatalogService.search over the dataset products.
Search(keywords, categories, max_results, products) ==
    LET normalized == SelectSeq(LowerTitle(keywords), LAMBDA k : k # "")
        kept == SelectSeq(products,
                          LAMBDA p : /\ p.category \in categories
                                     /\ ScoreProduct(p, normalized) > 0)
        results == [i \in DOMAIN kept |->
                       SearchHit(kept[i], ScoreProduct(kept[i], normalized))]
    IN  Take(SortByScoreDesc(results, <<>>), max_results)

\* max_results=max_per_category * 3
SearchFactor == 3

\* CatalogService.find_similar(analysis, max_per_category, products).
FindSimilar(analysis, max_per_category, products) ==
    [c \in KnownCategories |->
        Take(Search(AnalysisKeywords(analysis), {c},
                    max_per_category * SearchFactor, products),
             max_per_category)]

\* _requested_slots
RequestedSlots(clothing, selected) ==
    (clothing \cap {"top", "pants", "shoes", "outer"})
    \cup {NormalizeCategory(selected[i].slot) :
            i \in {j \in DOMAIN selected : selected[j].value # ""}}

\* _infer_slots_from_analysis
InferSlotsFromAnalysis(analysis) ==
    ({NormalizeCategory(analysis.categories[i]) : i \in DOMAIN analysis.categories}
     \cup {k \in {"top", "pants", "shoes", "outer"} : analysis[k] # <<>>})
    \cap {"top", "pants", "shoes", "outer"}

\* pool_size = max_per_category * 6
EmbedPoolFactor == 6

\* db_pos_recommender.recommend(positions=[pos], top_k=pool_size): alpha,
\* w1 and w2 are the defaults 0.38, 0.97 and 0.03; the order of the scores
\* is that of alpha = 1, the exponent being positive.
EmbedRequest(pos) ==
    [NoReq EXCEPT !.positions = <<pos>>, !.alpha = 1, !.w1 = Scale - 3, !.w2 = 3]

RECURSIVE EmbedTake(_, _, _, _, _)
\* _embedded_recommendations, lines 135-148: the items of the slot taken
\* from the pool, the selected product left out, until max_per_category.
EmbedTake(pool, list, slot_norm, value, max_per_category) ==
    IF pool = <<>> THEN list
    ELSE LET item == Head(pool)
         IN  IF NormalizeCategory(item.category) # slot_norm \/ item.id = value
             THEN EmbedTake(Tail(pool), list, slot_norm, value, max_per_category)
             ELSE IF Len(list) >= max_per_category THEN list
                  ELSE EmbedTake(Tail(pool), Append(list, item), slot_norm,
                                 value, max_per_category)

RECURSIVE EmbedFold(_, _, _)
\* _embedded_recommendations, lines 120-148: every by_category the loop over
\* selected_ids may end with (a value that is no int, and a call that
\* raises, are passed over).
EmbedFold(selected, by_category, max_per_category) ==
    IF selected = <<>> THEN {by_category}
    ELSE LET slot_norm == NormalizeCategory(Head(selected).slot)
             value == Head(selected).value
         IN  IF slot_norm \notin KnownCategories \/ ~IsNumeric(value)
             THEN EmbedFold(Tail(selected), by_category, max_per_category)
             ELSE UNION {EmbedFold(Tail(selected),
                                   IF d.status = "ok"
                                   THEN [by_category EXCEPT ![slot_norm] =
                                           EmbedTake(d.items, @, slot_norm, value,
                                                     max_per_category)]
                                   ELSE by_category,
                                   max_per_category) :
                           d \in DbRecommend(dbRec, EmbedRequest(IntOf(value)),
                                             max_per_category * EmbedPoolFactor)}

\* _embedded_recommendations: the categories that got no item are <<>>.
EmbeddedRecommendations(selected, max_per_category) ==
    IF selected = <<>> \/ ~DbAvailable(dbRec)
    THEN {[c \in KnownCategories |-> <<>>]}
    ELSE EmbedFold(selected, [c \in KnownCategories |-> <<>>], max_per_category)

\* Lines 345-364 / 430-458 without the gating loop: the embedded lists
\* replace those of find_similar and every category keeps its list.
UngatedCandidates(analysis, active_slots, r) ==
    LET found == Stored(FindSimilar(analysis, CandidateBudget(r.maxPerCategory),
                                    dbRec.products))
    IN  {Stored([c \in KnownCategories |->
                    IF embed_recs[c] # <<>> THEN embed_recs[c] ELSE found[c]]) :
            embed_recs \in EmbeddedRecommendations(r.selected, r.maxPerCategory)}

\* Lines 345-364 / 430-458: candidate_recs after the embedded lists replaced
\* those of find_similar and the slots were gated.
GatedCandidates(analysis, active_slots, r) ==
    LET found == Stored(FindSimilar(analysis, CandidateBudget(r.maxPerCategory),
                                    dbRec.products))
    IN  {Stored([c \in KnownCategories |->
                    IF c \notin active_slots THEN <<>>
                    ELSE IF embed_recs[c] # <<>> THEN embed_recs[c]
                    ELSE found[c]]) :
            embed_recs \in EmbeddedRecommendations(r.selected, r.maxPerCategory)}

\* Lines 377-380 / 468-471: the candidates of the ids the gateway lists.
RerankedList(cands) ==
    LET ids == SelectSeq(RerankIds(cands),
                         LAMBDA id : \E i \in DOMAIN cands : cands[i].id = id)
    IN  [i \in DOMAIN ids |-> IdsMapGet(cands, ids[i])]

\* The merge without its fill: only the listed items.
UploadFillNothing(list, cands, max_k) == list

RECURSIVE UploadFill(_, _, _)
\* recommend_from_upload, lines 384-388.
UploadFill(list, cands, max_k) ==
    IF cands = <<>> THEN list
    ELSE LET grown == IF Head(cands) \in Range(list) THEN list
                      ELSE Append(list, Head(cands))
         IN  IF Len(grown) >= max_k THEN grown
             ELSE UploadFill(grown, Tail(cands), max_k)

RECURSIVE FittingFill(_, _, _)
\* recommend_from_fitting, lines 472-476.
FittingFill(list, cands, max_k) ==
    IF cands = <<>> \/ Len(list) >= max_k THEN list
    ELSE FittingFill(IF Head(cands) \in Range(list) THEN list
                     ELSE Append(list, Head(cands)),
                     Tail(cands), max_k)

\* recommend_from_upload, lines 372-390: recs[cat].
UploadRecs(cands, max_k) ==
    IF gateway = "none" THEN Take(cands, max_k)
    ELSE IF Len(RerankedList(cands)) < max_k
         THEN UploadFill(RerankedList(cands), cands, max_k)
         ELSE RerankedList(cands)

\* recommend_from_fitting, lines 465-478: recs[cat].
FittingRecs(cands, max_k) ==
    IF gateway = "none" THEN Take(cands, max_k)
    ELSE FittingFill(RerankedList(cands), cands, max_k)

\* Lines 366-409 / 460-496 for one candidate_recs: the response.
Answered(op, candidate_recs, recs, r) ==
    IF UseRerank(r) /\ gateway = "raise"
    THEN [NoResp EXCEPT !.op = op, !.status = "500", !.reranked = TRUE]
    ELSE [NoResp EXCEPT !.op = op, !.status = "200", !.pools = candidate_recs,
                        !.by_cat = recs, !.reranked = UseRerank(r)]

\* recommend_from_upload: every response the request may get.
RecommendFromUpload(r) ==
    IF ~DbAvailable(dbRec)
    THEN {[NoResp EXCEPT !.op = "upload", !.status = "503"]}
    ELSE {Answered("upload", candidate_recs,
                   [c \in KnownCategories |->
                       IF UseRerank(r)
                       THEN UploadRecs(candidate_recs[c], r.maxPerCategory)
                       ELSE Take(candidate_recs[c], r.maxPerCategory)], r) :
            candidate_recs \in
                GatedCandidates(UploadAnalysis(r),
                                RequestedSlots(r.clothing, r.selected), r)}

\* Lines 437-444: the slots given, else those inferred from the analysis.
FittingSlots(r) ==
    IF RequestedSlots(r.clothing, r.selected) # {}
    THEN RequestedSlots(r.clothing, r.selected)
    ELSE InferSlotsFromAnalysis(FittingAnalysis(r))

\* recommend_from_fitting: every response the request may get.
RecommendFromFitting(r) ==
    IF ~DbAvailable(dbRec)
    THEN {[NoResp EXCEPT !.op = "fitting", !.status = "503"]}
    ELSE {Answered("fitting", candidate_recs,
                   [c \in KnownCategories |->
                       IF UseRerank(r)
                       THEN FittingRecs(candidate_recs[c], r.maxPerCategory)
                       ELSE Take(candidate_recs[c], r.maxPerCategory)], r) :
            candidate_recs \in
                GatedCandidates(FittingAnalysis(r), FittingSlots(r), r)}

\* What the rerank gateway answers when it answers a mapping.
GatewayAnswers == {"reverse", "repeat", "unknown"}

\* The analyses the AI service may give.
AiAnalyses ==
    {[given |-> FALSE, analysis |-> NoAnalysis],
     [given |-> TRUE, analysis |-> [NoAnalysis EXCEPT !.tags = <<"acme">>]],
     [given |-> TRUE, analysis |-> [NoAnalysis EXCEPT !.tags = <<"tee", "acme">>,
                                                      !.top = <<"tee">>]]}

\* The selectedProductIds of a request on a table of n products.
SelectedInputs(n) ==
    {<<>>, <<[slot |-> "top", value |-> ""]>>,
     <<[slot |-> "outer", value |-> "x"]>>} \cup
    {<<[slot |-> "Top", value |-> Str(p)]>> : p \in 0..(n - 1)}

\* Upload and fitting requests.
UploadRequests(n) ==
    {[NoUpload EXCEPT !.person = (cl = {}), !.clothing = cl, !.selected = sel,
                      !.maxPerCategory = k, !.use_llm_rerank = use, !.ai = ai] :
        cl \in {{}, {"top", "outer"}}, sel \in SelectedInputs(n),
        k \in 1..MaxK, use \in {"true", "unset"}, ai \in AiAnalyses}

\* The merges of the three handlers: the DB-backed provider alone, the
\* gateway up or down; a by-positions request names its categories or
\* leaves them to be inferred.
InitMerge ==
    /\ \E fs \in HandlerShelves, cfg \in {c \in ProviderConfigs : c.db /\ ~c.pos} :
          /\ InitWorld(fs, cfg)
          /\ \/ /\ phase = "request"
                /\ InitRequest(Len(fs), "true", {MaxK},
                               {t \in TargetInputs :
                                  t.items = <<>> /\ Len(t.categories) # 1})
                /\ llmUp = TRUE /\ gateway \in GatewayAnswers
             \/ /\ phase \in {"upload", "fitting"}
                /\ req \in UploadRequests(Len(fs))
                /\ \/ /\ req.use_llm_rerank = "true" /\ llmUp = TRUE
                      /\ gateway \in GatewayAnswers \cup {"none", "raise"}
                   \/ /\ req.use_llm_rerank = "unset" /\ llmUp = FALSE
                      /\ gateway = "none"
    /\ resp = NoResp
    /\ divPool = <<>> /\ divK = 1 /\ divOut = <<>>

\* POST /api/recommend
FromUpload ==
    /\ phase = "upload"
    /\ \E out \in RecommendFromUpload(req) : resp' = out
    /\ phase' = "done"
    /\ UNCHANGED <<world, req, divVars>>

\* POST /api/recommend/from-fitting
FromFitting ==
    /\ phase = "fitting"
    /\ \E out \in RecommendFromFitting(req) : resp' = out
    /\ phase' = "done"
    /\ UNCHANGED <<world, req, divVars>>

NextMerge == ByPositions \/ FromUpload \/ FromFitting

SpecMerge == InitMerge /\ [][NextMerge]_vars

\* recommend_by_embedding without the skip of the filtered rows
\* (if total[i] == -np.inf: continue).
DbRecommendByEmbeddingUnskipped(rec, query, category, top_k) ==
    IF ~DbAvailable(rec) THEN {[status |-> "RuntimeError", items |-> <<>>]}
    ELSE LET n == Len(rec.products)
             total == CalculateSimilarityScores(rec, Sign(query), 1, Scale - 3, 3)
             inCat == {i \in 1..n : NormalizeSlot(rec.products[i].category) = category}
             filtered == IF category = "" THEN total
                         ELSE [i \in 1..n |-> IF i \in inCat THEN total[i] ELSE NegInf]
         IN  IF category # "" /\ inCat = {}
             THEN {[status |-> "ok", items |-> <<>>]}
             ELSE {[status |-> "ok", items |-> DbItems(rec.products, filtered, order)] :
                     order \in TopIdx(filtered, ClampK(top_k, n))}

(* ------------------- loads, reloads and direct calls ------------------- *)
\* DbPosRecommender.recommend_by_embedding(query_embedding, category,
\* top_k): alpha, w1 and w2 are the defaults (see EmbedRequest).
DbRecommendByEmbedding(rec, query, category, top_k) ==
    IF ~DbAvailable(rec) THEN {[status |-> "RuntimeError", items |-> <<>>]}
    ELSE LET n == Len(rec.products)
             total == CalculateSimilarityScores(rec, Sign(query), 1, Scale - 3, 3)
             inCat == {i \in 1..n : NormalizeSlot(rec.products[i].category) = category}
             filtered == IF category = "" THEN total
                         ELSE [i \in 1..n |-> IF i \in inCat THEN total[i] ELSE NegInf]
         IN  IF category # "" /\ inCat = {}
             THEN {[status |-> "ok", items |-> <<>>]}
             ELSE {[status |-> "ok",
                    items |-> DbItems(rec.products, filtered,
                                      SelectSeq(order,
                                                LAMBDA i : filtered[i + 1] # NegInf))] :
                     order \in TopIdx(filtered, ClampK(top_k, n))}

LoadFixtures == <<Fixture(<<"tee">>, "top", 10, 1), Fixture(<<"coat">>, "outer", 100, -2)>>

\* The contents catalog.json may have: up to MaxN products.
LoadShelves == SeqsOf(Range(LoadFixtures), 0, MaxN)

\* The embedding rows found beside the products fs: as many, one fewer, or
\* one more.
EmbVariants(fs) ==
    {EmbRows(fs), EmbRows(Take(fs, Len(fs) - 1)), EmbRows(fs) \o <<1>>}

\* The services as constructed: the catalog, the file-based recommender
\* loaded from the embedding file, the DB-backed one from its two tables.
InitLoad ==
    /\ \E fs \in LoadShelves : \E es \in EmbVariants(fs), mat \in EmbVariants(fs) :
          /\ catalog = CatalogLoad(CatalogData(fs))
          /\ posRec = PosLoad([exists |-> TRUE, rows |-> es],
                              CatalogLoad(CatalogData(fs)))
          /\ dbRec = DbLoadAll(DbRows(fs), mat)
          /\ loads = LoadLog([exists |-> TRUE, rows |-> es],
                             CatalogLoad(CatalogData(fs)), TRUE, DbRows(fs), mat)
    /\ extUp = FALSE /\ extRows = <<>> /\ llmUp = FALSE /\ gateway = "none"
    /\ req = NoReq /\ resp = NoResp
    /\ divPool = <<>> /\ divK = 1 /\ divOut = <<>>
    /\ phase = "serving"

\* The calls served after construction: one seed (in range or not), a
\* small or a large top_k.
ServedRequests ==
    {[NoReq EXCEPT !.positions = <<p>>, !.top_k = k, !.alpha = 1,
                   !.w1 = Scale - 3, !.w2 = 3] : p \in 0..MaxN, k \in {1, MaxK}}

\* What catalog.json may hold at a reload: the entries loaded last, with
\* the last or the first one removed (the entries keep the id and the pos
\* they were given) or one more appended (any content, by steps).
EditedData(cat) ==
    {cat, Take(cat, Len(cat) - 1), IF cat = <<>> THEN cat ELSE Tail(cat)}
    \cup {cat \o CatalogData(<<f>>) : f \in {g \in Range(LoadFixtures) : Len(cat) < MaxN}}

\* What reading catalog.json gives: the list of its entries, or an
\* exception (the file is missing, is no JSON, holds an entry that is no
\* object).
CatalogFiles(cat) ==
    {[read |-> TRUE, data |-> d] : d \in EditedData(cat)}
    \cup {[read |-> FALSE, data |-> <<>>]}

\* CatalogService._load: any exception is caught and leaves an empty catalog.
Load(file) == IF file.read THEN CatalogLoad(file.data) ELSE <<>>

\* CatalogService.reload: _load() raises nothing, so the except branch of
\* reload is never taken and True is returned.
Reload(file) == [catalog |-> Load(file), returned |-> "True"]

\* CatalogService.reload(), between two requests: catalog.json is read again.
ReloadCatalog ==
    /\ phase \in {"serving", "answered"}
    /\ \E file \in CatalogFiles(catalog) :
          /\ catalog' = Reload(file).catalog
          /\ req' = [file |-> file, previous |-> catalog]
          /\ resp' = Returned("reload", Reload(file).returned, <<>>)
    /\ phase' = "serving"
    /\ UNCHANGED <<posRec, dbRec, extUp, extRows, llmUp, gateway, loads, divVars>>

\* PosRecommender.recommend called on the services as they are.
ServePos ==
    /\ phase = "serving"
    /\ \E r \in ServedRequests :
          /\ req' = r
          /\ \E out \in PosRecommend(posRec, catalog, r, r.top_k) :
                resp' = Returned("pos", out.status, out.items)
    /\ phase' = "answered"
    /\ UNCHANGED <<world, divVars>>

\* DbPosRecommender.recommend called on the services as they are.
ServeDb ==
    /\ phase = "serving"
    /\ \E r \in ServedRequests :
          /\ req' = r
          /\ \E out \in DbRecommend(dbRec, r, r.top_k) :
                resp' = Returned("db", out.status, out.items)
    /\ phase' = "answered"
    /\ UNCHANGED <<world, divVars>>

\* DbPosRecommender.recommend_by_embedding called on the services as they are.
ServeByEmbedding ==
    /\ phase = "serving"
    /\ \E q \in {-2, 1}, c \in {"", "top", "shoes"}, k \in {0, 1, MaxK} :
          /\ req' = [query_embedding |-> q, category |-> c, top_k |-> k]
          /\ \E out \in DbRecommendByEmbedding(dbRec, q, c, k) :
                resp' = Returned("db_embedding", out.status, out.items)
    /\ phase' = "answered"
    /\ UNCHANGED <<world, divVars>>

NextLoad == ReloadCatalog \/ ServePos \/ ServeDb \/ ServeByEmbedding

SpecLoad == InitLoad /\ [][NextLoad]_vars

(* ------------- a booster or a backfill that raises --------------------- *)
\* The catalog entries of fs with the price of entry j malformed (j = 0:
\* none).
WithMalformed(data, j) ==
    [i \in DOMAIN data |->
        IF i = j THEN [data[i] EXCEPT !.price = Malformed] ELSE data[i]]

\* Worlds in which the data sources disagree: the DB table holds only the
\* first m products of the catalog (a seed past it makes the DB-backed
\* recommender raise), or catalog.json has an entry with a malformed price
\* (the file-based recommender then does not load).  The external service
\* is down and there is no rerank gateway.
InitBoost ==
    /\ \E fs \in HandlerShelves, m \in 1..MaxN, j \in 0..MaxN :
          /\ m <= Len(fs) /\ j <= Len(fs)
          /\ m = Len(fs) \/ j = 0
          /\ catalog = CatalogLoad(WithMalformed(CatalogData(fs), j))
          /\ posRec = PosLoad([exists |-> TRUE, rows |-> EmbRows(fs)],
                              CatalogLoad(WithMalformed(CatalogData(fs), j)))
          /\ dbRec = DbLoadAll(DbRows(Take(fs, m)), EmbRows(Take(fs, m)))
          /\ loads = LoadLog([exists |-> TRUE, rows |-> EmbRows(fs)],
                             CatalogLoad(WithMalformed(CatalogData(fs), j)), TRUE,
                             DbRows(Take(fs, m)), EmbRows(Take(fs, m)))
          /\ extRows = ExtTable(fs)
          /\ InitRequest(Len(fs), "unset", {1, MaxK},
                         {t \in TargetInputs : Len(t.categories) = 1
                                                  \/ "outer" \in Range(t.categories)})
    /\ extUp = FALSE /\ llmUp = FALSE /\ gateway = "none"
    /\ resp = NoResp
    /\ divPool = <<>> /\ divK = 1 /\ divOut = <<>>
    /\ phase = "request"

SpecBoost == InitBoost /\ [][Next]_vars

(* --------------- seed lists of every kind: empty, out of range --------- *)
\* Every setting of the three providers.
AllProviderConfigs == [db : BOOLEAN, pos : BOOLEAN, ext : BOOLEAN]

\* Seed lists as a client may send them: none, or strictly increasing
\* positions in -1..n (in range or not).
AnySeedLists(n) ==
    {ps \in SeqsOf(-1..n, 0, MaxSeeds) : \A i \in 1..(Len(ps) - 1) : ps[i] < ps[i + 1]}

\* A by-positions request, or a direct call of a recommender, with a seed
\* list of any kind, under every provider setting.
InitSeeds ==
    /\ \E fs \in HandlerShelves, cfg \in AllProviderConfigs :
          /\ InitWorld(fs, cfg)
          /\ \E ps \in AnySeedLists(Len(fs)), k \in {1, MaxK}, fk \in {1, MaxK},
                cats \in {<<>>, <<"top">>} :
                req = [NoReq EXCEPT !.positions = ps, !.top_k = k, !.final_k = fk,
                                    !.alpha = 1, !.w1 = Scale - 3, !.w2 = 3,
                                    !.categories = cats, !.use_llm_rerank = "unset"]
    /\ llmUp = FALSE /\ gateway = "none"
    /\ resp = NoResp
    /\ divPool = <<>> /\ divK = 1 /\ divOut = <<>>
    /\ phase \in {"request", "rec_call"}

NextSeeds == ByPositions \/ PosRecommendCall \/ DbRecommendCall

SpecSeeds == InitSeeds /\ [][NextSeeds]_vars

(* ------------- what a request writes, and to which object -------------- *)
\* The objects a statement may write to: row i of a shared list or array
\* ("catalog": CatalogService._catalog; "products", "emb_norm", "prices":
\* the fields of DbPosRecommender; "pos.emb_norm", "pos.prices": the arrays
\* of PosRecommender), or an object the request made itself (a dict
\* literal, a comprehension, a slice, the result of an array expression).
SharedRow(store, i) == [store |-> store, at |-> i]

Local == [store |-> "local", at |-> 0]

\* p = self.products[i]: the dict of the snapshot itself, no copy.
DictAlias(ref) == ref

\* dict(product): a new dict holding the same values.
DictCopy(ref) == Local

\* obj[field] = value
SetItem(ref, field, value) == [ref |-> ref, field |-> field, value |-> value]

\* total[np.array(positions)] = -np.inf: total is the array the expression
\* w1 * sim + w2 * price_score made.
ExcludeWrites(positions) ==
    {SetItem(Local, "element", NegInf) : i \in DOMAIN positions}

\* DbPosRecommender.recommend, lines 315-320, and recommend_by_embedding,
\* lines 389-392: p = dict(self.products[i]); p["score"] = float(total[i]),
\* for every item returned.
DbWrites(items) ==
    {SetItem(DictCopy(SharedRow("products", items[i].pos + 1)), "score",
             items[i].score) : i \in DOMAIN items}

\* CatalogService.search, lines 126-139, over the products of the DB-backed
\* recommender: copy = dict(product); copy["score"] = s; copy["pos"] = int(pid).
SearchWrites(keywords, categories, products) ==
    LET normalized == SelectSeq(LowerTitle(keywords), LAMBDA k : k # "")
        hits == {i \in DOMAIN products :
                    /\ products[i].category \in categories
                    /\ ScoreProduct(products[i], normalized) > 0}
    IN  UNION {{SetItem(DictCopy(SharedRow("products", i)), "score",
                        ScoreProduct(products[i], normalized)),
                SetItem(DictCopy(SharedRow("products", i)), "pos",
                        SearchHit(products[i], 0).pos)} : i \in hits}

\* CatalogService.find_similar: one search per category; lines 182-188 set
\* pos again on the copies search returned.
FindSimilarWrites(analysis, products) ==
    UNION {SearchWrites(AnalysisKeywords(analysis), {c}, products) :
             c \in KnownCategories}

\* _embedded_recommendations: the writes of every call of
\* db_pos_recommender.recommend it may make.
EmbedWrites(selected, max_per_category) ==
    IF ~DbAvailable(dbRec) THEN {}
    ELSE UNION {UNION {DbWrites(d.items) \cup ExcludeWrites(<<0>>) :
                         d \in DbRecommend(dbRec, EmbedRequest(IntOf(selected[i].value)),
                                           max_per_category * EmbedPoolFactor)} :
                  i \in {j \in DOMAIN selected :
                           /\ NormalizeCategory(selected[j].slot) \in KnownCategories
                           /\ IsNumeric(selected[j].value)}}

\* recommend_by_positions: the provider's call, the booster's call when a
\* target category is short, and lines 443-449 (d = dict(it); d["pos"] =
\* int(id)) on the items returned.  The file-based recommender, the
\* external one and the backfill build their dicts as literals; the lists
\* sorted in place (cat_pool, pool) are lists the request made.
ByPositionsWrites(po, b, r, out) ==
    (IF po.status = "pool" /\ po.source = "db"
     THEN DbWrites(po.items) \cup ExcludeWrites(r.positions) ELSE {})
    \cup (IF /\ po.status = "pool" /\ DbAvailable(dbRec) /\ b.status = "ok"
             /\ \E c \in Range(TargetCats(r)) :
                   Len(OfCategory(po.items, c)) < r.final_k
          THEN DbWrites(b.items) \cup ExcludeWrites(r.positions) ELSE {})
    \cup {SetItem(DictCopy(Local), "pos", out.items[i].pos) : i \in DOMAIN out.items}

\* recommend_from_upload and recommend_from_fitting: find_similar over
\* _db_products() and the embedded recommendations.
UploadWrites(analysis, r) ==
    IF ~DbAvailable(dbRec) THEN {}
    ELSE FindSimilarWrites(analysis, dbRec.products)
         \cup EmbedWrites(r.selected, r.maxPerCategory)

\* A row after the writes ws made to it.
RowAfter(row, ws) ==
    [f \in DOMAIN row \cup {w.field : w \in ws} |->
        IF \E w \in ws : w.field = f THEN (CHOOSE w \in ws : w.field = f).value
        ELSE row[f]]

\* A shared list of dicts, or a shared array, after the writes of a request.
After(rows, store, writes) ==
    [i \in DOMAIN rows |->
        LET ws == {w \in writes : w.ref = SharedRow(store, i)}
        IN  IF ws = {} THEN rows[i]
            ELSE IF store \in {"catalog", "products"} THEN RowAfter(rows[i], ws)
            ELSE (CHOOSE w \in ws : TRUE).value]

\* The snapshot after the writes of a request.
Snapshot(writes) ==
    /\ catalog' = After(catalog, "catalog", writes)
    /\ dbRec' = [dbRec EXCEPT !.products = After(@, "products", writes),
                              !.emb_norm = After(@, "emb_norm", writes),
                              !.prices = After(@, "prices", writes)]
    /\ posRec' = [posRec EXCEPT !.emb_norm = After(@, "pos.emb_norm", writes),
                                !.prices = After(@, "pos.prices", writes)]
    /\ UNCHANGED <<extUp, extRows, llmUp, gateway, loads>>

\* POST /api/recommend/by-positions, with what it does to the snapshot.
ByPositionsOnSnapshot ==
    /\ phase = "request"
    /\ \E po \in ProviderChain(req), b \in Boosted(req) :
          LET out == IF po.status # "pool"
                     THEN [NoResp EXCEPT !.op = "by_positions", !.status = po.status]
                     ELSE Allocate(po, b, req)
          IN  resp' = out /\ Snapshot(ByPositionsWrites(po, b, req, out))
    /\ phase' = "done"
    /\ UNCHANGED <<req, divVars>>

\* POST /api/recommend, with what it does to the snapshot.
FromUploadOnSnapshot ==
    /\ phase = "upload"
    /\ \E out \in RecommendFromUpload(req) : resp' = out
    /\ Snapshot(UploadWrites(UploadAnalysis(req), req))
    /\ phase' = "done"
    /\ UNCHANGED <<req, divVars>>

\* POST /api/recommend/from-fitting, with what it does to the snapshot.
FromFittingOnSnapshot ==
    /\ phase = "fitting"
    /\ \E out \in RecommendFromFitting(req) : resp' = out
    /\ Snapshot(UploadWrites(FittingAnalysis(req), req))
    /\ phase' = "done"
    /\ UNCHANGED <<req, divVars>>

\* DbPosRecommender.recommend_by_embedding, with what it does to the snapshot.
ByEmbeddingOnSnapshot ==
    /\ phase = "serving"
    /\ \E q \in {-2, 1}, c \in {"", "top"}, k \in {1, MaxK} :
          /\ req' = [query_embedding |-> q, category |-> c, top_k |-> k]
          /\ \E out \in DbRecommendByEmbedding(dbRec, q, c, k) :
                /\ resp' = Returned("db_embedding", out.status, out.items)
                /\ Snapshot(DbWrites(out.items))
    /\ phase' = "done"
    /\ UNCHANGED divVars

\* Requests of the four kinds, the DB-backed or the file-based provider up,
\* no rerank gateway.
InitFrame ==
    /\ \E fs \in HandlerShelves, cfg \in {c \in ProviderConfigs : ~c.ext /\ (c.db # c.pos)} :
          /\ InitWorld(fs, cfg)
          /\ \/ /\ phase = "request"
                /\ InitRequest(Len(fs), "unset", {1, MaxK},
                               {t \in TargetInputs : Len(t.categories) # 1})
             \/ /\ phase \in {"upload", "fitting"}
                /\ req \in {u \in UploadRequests(Len(fs)) : u.use_llm_rerank = "unset"}
             \/ /\ phase = "serving"
                /\ req = NoReq
    /\ llmUp = FALSE /\ gateway = "none"
    /\ resp = NoResp
    /\ divPool = <<>> /\ divK = 1 /\ divOut = <<>>

NextFrame ==
    \/ ByPositionsOnSnapshot
    \/ FromUploadOnSnapshot
    \/ FromFittingOnSnapshot
    \/ ByEmbeddingOnSnapshot

SpecFrame == InitFrame /\ [][NextFrame]_vars

(* ------------------ the price score in floating point ------------------ *)
\* 2^-n is a positive float exactly for n up to this; below it exp gives 0.0.
\* price_score has the dtype of clog - qlog: float32, the dtype of the price
\* array (numpy 1: a scalar does not widen an array), or float64, the dtype
\* of qlog (numpy 2).
Float32MinExp == 149

Float64MinExp == 1074

FloatMinExps == {Float32MinExp, Float64MinExp}

\* np.exp(-alpha * np.abs(clog - qlog)) for the prices 2^k - 1 and 2^qk - 1
\* and a whole alpha: log1p gives k ln 2 and qk ln 2, the score is
\* 2^-(alpha * |k - qk|), given as [zero, negExp]: 0.0, or 2^-negExp.
PriceScoreFloat(alpha, k, qk, minExp) ==
    IF alpha * Abs(k - qk) > minExp THEN [zero |-> TRUE, negExp |-> 0]
    ELSE [zero |-> FALSE, negExp |-> alpha * Abs(k - qk)]

\* alpha as the by-positions endpoint bounds it (le=10.0), and beyond, as a
\* caller of the recommenders may give it.
PriceAlphas == {0, 1, 2, 10, 2000}

\* The exponents k of the prices 2^k - 1: 0, 1, 3, ..., 32767.
PriceExps == {0, 1, 2, 15}

InitPrice ==
    /\ catalog = <<>> /\ posRec = NoStore /\ dbRec = NoDb /\ loads = NoLoads
    /\ extUp = FALSE /\ extRows = <<>> /\ llmUp = FALSE /\ gateway = "none"
    /\ req \in [alpha : PriceAlphas, k : PriceExps, qk : PriceExps,
                minExp : FloatMinExps]
    /\ resp = NoResp
    /\ divPool = <<>> /\ divK = 1 /\ divOut = <<>>
    /\ phase = "price_call"

\* The price score of one row against one seed price.
PriceScoreCall ==
    /\ phase = "price_call"
    /\ resp' = PriceScoreFloat(req.alpha, req.k, req.qk, req.minExp)
    /\ phase' = "price_done"
    /\ UNCHANGED <<world, req, divVars>>

NextPrice == PriceScoreCall

SpecPrice == InitPrice /\ [][NextPrice]_vars

(* ---------------- VertexVideoService._sanitize_parameters --------------- *)
\* A parameter value: its Python type and its str() form.
ParamValues ==
    {[type |-> "NoneType", text |-> "None"], [type |-> "str", text |-> "720p"],
     [type |-> "int", text |-> "4"], [type |-> "bool", text |-> "True"],
     [type |-> "float", text |-> "1.5"], [type |-> "list", text |-> "['a']"]}

ParamKeys == {"durationSeconds", "extra", "resolution"}

\* _sanitize_parameters: None entries are skipped, str, bool, int and float
\* values are kept as they are, every other value becomes str(value).
SanitizeParameters(parameters) ==
    [k \in {j \in DOMAIN parameters : parameters[j].type # "NoneType"} |->
        IF parameters[k].type \in {"str", "bool", "int", "float"} THEN parameters[k]
        ELSE [type |-> "str", text |-> parameters[k].text]]

InitSanitize ==
    /\ catalog = <<>> /\ posRec = NoStore /\ dbRec = NoDb /\ loads = NoLoads
    /\ extUp = FALSE /\ extRows = <<>> /\ llmUp = FALSE /\ gateway = "none"
    /\ \E keys \in SUBSET ParamKeys : req \in [keys -> ParamValues]
    /\ resp = NoResp
    /\ divPool = <<>> /\ divK = 1 /\ divOut = <<>>
    /\ phase = "sanitize_call"

\* A call of _sanitize_parameters(req).
SanitizeCall ==
    /\ phase = "sanitize_call"
    /\ resp' = SanitizeParameters(req)
    /\ phase' = "sanitize_done"
    /\ UNCHANGED <<world, req, divVars>>

NextSanitize == SanitizeCall

SpecSanitize == InitSanitize /\ [][NextSanitize]_vars

(* ---------------- VertexVideoService.collect_video_uris ----------------- *)
\* Most predictions of an operation.
MaxPreds == 2

\* The value under a key: a URI, or "" for a key that is absent, None or
\* empty (skipped alike by isinstance(val, str) and val).
UriValues == {"", "gs://a", "https://b"}

\* An entry of videos and a prediction, with the keys the inputs carry (the
\* other keys the function reads are absent).
VideoEntries == [uri : UriValues, videoUri : UriValues]

Predictions == [videoUri : UriValues, videos : SeqsOf(VideoEntries, 0, 1)]

\* Lines 280-303 for one prediction: the direct field, then the entries of
\* videos, uri before videoUri.
RECURSIVE VideoUris(_)
VideoUris(videos) ==
    IF videos = <<>> THEN <<>>
    ELSE SelectSeq(<<Head(videos).uri, Head(videos).videoUri>>, LAMBDA u : u # "")
         \o VideoUris(Tail(videos))

PredictionUris(pred) ==
    SelectSeq(<<pred.videoUri>>, LAMBDA u : u # "") \o VideoUris(pred.videos)

RECURSIVE AppendedUris(_)
\* The list uris after the loop over predictions.
AppendedUris(predictions) ==
    IF predictions = <<>> THEN <<>>
    ELSE PredictionUris(Head(predictions)) \o AppendedUris(Tail(predictions))

\* A return that keeps every occurrence: list(uris).
KeepOccurrences(uris) == uris

\* list(dict.fromkeys(uris)): the first occurrence of each value, in order.
DictFromKeys(uris) == OrderedUnique(uris, <<>>)

\* collect_video_uris(operation): the URIs of the predictions, then the
\* videoUri of the response itself (lines 316-319).
CollectVideoUris(operation) ==
    DictFromKeys(AppendedUris(operation.predictions)
                 \o SelectSeq(<<operation.videoUri>>, LAMBDA u : u # ""))

InitCollect ==
    /\ catalog = <<>> /\ posRec = NoStore /\ dbRec = NoDb /\ loads = NoLoads
    /\ extUp = FALSE /\ extRows = <<>> /\ llmUp = FALSE /\ gateway = "none"
    /\ req \in [predictions : SeqsOf(Predictions, 0, MaxPreds), videoUri : UriValues]
    /\ resp = NoResp
    /\ divPool = <<>> /\ divK = 1 /\ divOut = <<>>
    /\ phase = "collect_call"

\* A call of collect_video_uris(req).
CollectCall ==
    /\ phase = "collect_call"
    /\ resp' = CollectVideoUris(req)
    /\ phase' = "collect_done"
    /\ UNCHANGED <<world, req, divVars>>

NextCollect == CollectCall

SpecCollect == InitCollect /\ [][NextCollect]_vars

(* ------------- providers holding different numbers of products --------- *)
\* Worlds in which each provider has its own data: the DB table holds the
\* first m products, catalog.json and its embeddings the first c, the
\* external service all of them (m <= c), every provider up or down.  A
\* seed is a position of the external table: past m the DB-backed
\* recommender raises, past c the file-based one does.
InitChain ==
    /\ \E fs \in HandlerShelves, m \in 1..MaxN, c \in 1..MaxN,
          cfg \in AllProviderConfigs :
          /\ m <= c /\ c <= Len(fs)
          /\ catalog = CatalogLoad(CatalogData(Take(fs, c)))
          /\ posRec = PosLoad([exists |-> cfg.pos, rows |-> EmbRows(Take(fs, c))],
                              CatalogLoad(CatalogData(Take(fs, c))))
          /\ dbRec = IF cfg.db THEN DbLoadAll(DbRows(Take(fs, m)), EmbRows(Take(fs, m)))
                     ELSE NoDb
          /\ loads = LoadLog([exists |-> cfg.pos, rows |-> EmbRows(Take(fs, c))],
                             CatalogLoad(CatalogData(Take(fs, c))), cfg.db,
                             DbRows(Take(fs, m)), EmbRows(Take(fs, m)))
          /\ extUp = cfg.ext
          /\ extRows = ExtTable(fs)
          /\ \E p \in 0..(Len(fs) - 1), k \in {1, MaxK} :
                req = [NoReq EXCEPT !.positions = <<p>>, !.top_k = k, !.final_k = 1,
                                    !.alpha = 1, !.w1 = Scale - 3, !.w2 = 3,
                                    !.use_llm_rerank = "unset"]
    /\ llmUp = FALSE /\ gateway = "none"
    /\ resp = NoResp
    /\ divPool = <<>> /\ divK = 1 /\ divOut = <<>>
    /\ phase = "request"

SpecChain == InitChain /\ [][Next]_vars

(* ------------------ VertexVideoService._post_with_retry ---------------- *)
\* The largest max_retries a call is made with (the default is 2).
MaxRetries == 2

\* What one httpx.post followed by raise_for_status() gives: the response,
\* an HTTPStatusError carrying a status code, or a transport error.
PostOutcomes ==
    {[kind |-> "success", code |-> 200], [kind |-> "transport", code |-> 0]}
    \cup {[kind |-> "status", code |-> c] :
            c \in {400, 401, 404, 408, 429, 500, 501, 502, 503, 504}}

\* is_retryable, with every status retried.
EveryStatusRetryable(status_code) == TRUE

\* is_retryable = status_code in {408, 429, 500, 502, 503, 504}
IsRetryable(status_code) == status_code \in {408, 429, 500, 502, 503, 504}

\* The call at the head of its loop: attempt = 0, no request made yet.
PostState == [attempt |-> 0, requests |-> <<>>, result |-> "running", raised |-> 0]

InitPost ==
    /\ catalog = <<>> /\ posRec = NoStore /\ dbRec = NoDb /\ loads = NoLoads
    /\ extUp = FALSE /\ extRows = <<>> /\ llmUp = FALSE /\ gateway = "none"
    /\ req \in [max_retries : -1..MaxRetries]
    /\ resp = PostState
    /\ divPool = <<>> /\ divK = 1 /\ divOut = <<>>
    /\ phase = "post_loop"

\* One pass of the loop body, lines 187-213: the request, then the
\* response returned, HTTPException raised, or attempt += 1 and the sleep
\* of min(2.0 * attempt, 5.0) seconds.
PostAttempt ==
    /\ phase = "post_loop"
    /\ resp.attempt <= req.max_retries
    /\ \E o \in PostOutcomes :
          LET made == [resp EXCEPT !.requests = Append(@, o)]
          IN  CASE o.kind = "success" ->
                     /\ resp' = [made EXCEPT !.result = "returned"]
                     /\ phase' = "post_done"
                [] o.kind = "status"
                   /\ (~IsRetryable(o.code) \/ resp.attempt = req.max_retries) ->
                     /\ resp' = [made EXCEPT !.result = "raised", !.raised = o.code]
                     /\ phase' = "post_done"
                [] o.kind = "transport" /\ resp.attempt = req.max_retries ->
                     /\ resp' = [made EXCEPT !.result = "raised", !.raised = 502]
                     /\ phase' = "post_done"
                [] OTHER ->
                     /\ resp' = [made EXCEPT !.attempt = @ + 1]
                     /\ phase' = "post_loop"
    /\ UNCHANGED <<world, req, divVars>>

\* Line 215: the loop left by its condition.
PostLoopLeft ==
    /\ phase = "post_loop"
    /\ resp.attempt > req.max_retries
    /\ resp' = [resp EXCEPT !.result = "raised", !.raised = 502]
    /\ phase' = "post_done"
    /\ UNCHANGED <<world, req, divVars>>

NextPost == PostAttempt \/ PostLoopLeft

SpecPost == InitPost /\ [][NextPost]_vars

\* The thread of the call runs on: httpx.post has a timeout and the sleep
\* is at most 5 seconds, so a pass that can be made is made.
SpecPostFair == SpecPost /\ WF_vars(NextPost)

(* ============================ claims =================================== *)
\* The positions of the items of a list (the id is str(pos)).
PositionsOf(items) == {IntOf(items[i].id) : i \in DOMAIN items}

RecReturned == phase = "rec_done" /\ resp.status = "ok"

\* C1: on an available store, for every non-empty list of in-range seeds
\* and every top_k >= 1, PosRecommender.recommend and
\* DbPosRecommender.recommend return no seed position, and with
\* top_k >= N exactly the non-seed rows.
C1_NoSeedReturned ==
    RecReturned =>
        /\ PositionsOf(resp.items) \cap Range(req.positions) = {}
        /\ req.top_k >= Len(catalog) =>
              /\ PositionsOf(resp.items)
                    = (0..(Len(catalog) - 1)) \ Range(req.positions)
              /\ Len(resp.items) = Cardinality(PositionsOf(resp.items))

(* ----------------------------- C2 .. C5 -------------------------------- *)
KeysOf(items) == {Key(items[i]) : i \in DOMAIN items}

SigsOf(items) == {Signature(items[i]) : i \in DOMAIN items}

DistinctKeys(items) == Cardinality(KeysOf(items)) = Len(items)

\* The by-positions handler answered with a list.
HandlerDone == phase = "done" /\ resp.op = "by_positions" /\ resp.status = "200"

\* C2: for every by-positions request, whatever the requested categories
\* (two of which may normalize to the same category), no two items of the
\* combined response share an identity key.
C2_NoSharedKey == HandlerDone => DistinctKeys(resp.items)

NonIncreasing(items) ==
    \A i \in 1..(Len(items) - 1) : items[i].score >= items[i + 1].score

\* C3: a by-positions request answered without reranking returns each list
\* (the items of one target category, or the whole list when there is no
\* target category) in non-increasing score order.
C3_ScoreOrdered ==
    (HandlerDone /\ ~resp.reranked) =>
        IF resp.target_cats = <<>> THEN NonIncreasing(resp.items)
        ELSE \A c \in Range(resp.target_cats) : NonIncreasing(resp.by_cat[c])

\* C4: when the request gives a non-empty categories list, every returned
\* item has a normalized category equal to one of the requested normalized
\* categories, also when the requested values map to no known category.
C4_RestrictedToCategories ==
    (HandlerDone /\ req.categories # <<>>) =>
        \A i \in DOMAIN resp.items :
            NormalizeCategory(resp.items[i].category)
                \in {NormalizeCategory(req.categories[j]) : j \in DOMAIN req.categories}

\* C5: a target category of which exactly m < final_k products exist in
\* pool and catalog (every provider holds the products of the catalog) gets
\* exactly m items, all of that category: a short or empty pool is filled
\* from the catalog.
C5_ShortCategoryFilledFromCatalog ==
    HandlerDone =>
        \A c \in Range(resp.target_cats) :
            LET m == Len(OfCategory(catalog, c))
            IN  m < req.final_k =>
                  /\ Len(resp.by_cat[c]) = m
                  /\ \A i \in DOMAIN resp.by_cat[c] :
                        NormalizeCategory(resp.by_cat[c][i].category) = c

(* ----------------------------- C6 .. C8 -------------------------------- *)
DivReturned == phase = "div_done"

\* C6 as stated: _diversify_pick(pool, k) returns exactly min(k, |pool|)
\* items, for every candidate list pool and every k >= 1.
C6_ReturnsMinOfKAndPool ==
    DivReturned => Len(divOut) = Min(divK, Len(divPool))

\* C6 as amended: _diversify_pick(pool, k) returns exactly min(k, |pool|)
\* items whenever the identity keys of the pool are pairwise distinct, and
\* never more than min(k, |pool|) items.
C6_ReturnsMinWhenKeysDistinct ==
    DivReturned =>
        /\ Len(divOut) <= Min(divK, Len(divPool))
        /\ DistinctKeys(divPool) => Len(divOut) = Min(divK, Len(divPool))

\* C6 witness: a pool of pairwise distinct keys in which two items share a
\* signature, with k above the number of signatures: the second pass fills.
C6_Witness ==
    /\ DivReturned /\ DistinctKeys(divPool)
    /\ Cardinality(SigsOf(divPool)) < divK
    /\ Len(divPool) >= divK /\ divK >= 2
    /\ Len(divOut) = divK

\* C7: _diversify_pick(candidates, k) returns exactly
\* min(k, number of distinct identity keys) items, no two of which share an
\* identity key, for every candidate list.
C7_ReturnsDistinctKeys ==
    DivReturned =>
        /\ Len(divOut) = Min(divK, Cardinality(KeysOf(divPool)))
        /\ DistinctKeys(divOut)

\* The index in pool of the first item of signature sig.
FirstIndexOf(pool, sig) ==
    CHOOSE i \in DOMAIN pool :
        /\ Signature(pool[i]) = sig
        /\ \A j \in 1..(i - 1) : Signature(pool[j]) # sig

\* C8: the first min(k, number of distinct signatures) items of
\* _diversify_pick(pool, k) have pairwise distinct signatures and are, in
\* input order, the first occurrences of the signatures; an item sharing a
\* signature with an earlier pick comes only after them.
C8_FirstPicksAreFirstOccurrences ==
    DivReturned =>
        LET d == Min(divK, Cardinality(SigsOf(divPool)))
            head == Take(divOut, d)
        IN  /\ Len(divOut) >= d
            /\ Cardinality(SigsOf(head)) = d
            /\ \A i \in 1..d :
                  head[i] = divPool[FirstIndexOf(divPool, Signature(head[i]))]
            /\ \A i, j \in 1..d : i < j =>
                  FirstIndexOf(divPool, Signature(head[i]))
                    < FirstIndexOf(divPool, Signature(head[j]))
            /\ \A i \in 1..d :
                  \A s \in SigsOf(SubSeq(divPool, 1,
                          FirstIndexOf(divPool, Signature(head[i])))) :
                      s \in SigsOf(Take(head, i))
            /\ \A j \in (d + 1)..Len(divOut) :
                  Signature(divOut[j]) \in SigsOf(head)

\* C8 witness: a signature repeats before a new one appears, and the pick
\* takes the new one ahead of the repeat.
C8_Witness ==
    /\ DivReturned /\ Len(divPool) >= 3 /\ Len(divOut) >= 2
    /\ Signature(divPool[1]) = Signature(divPool[2])
    /\ Signature(divPool[3]) # Signature(divPool[1])
    /\ divOut[1] = divPool[1] /\ divOut[2] = divPool[3]

(* ----------------------------- C9, C10 --------------------------------- *)
\* llm_ranker.rerank was called and answered None: the handler fell back.
RerankFellBack == HandlerDone /\ resp.reranked /\ gateway = "none"

C10_RerankFailureNotFatal ==
    (phase = "done" /\ UseRerank(req) /\ gateway = "raise") => resp.status = "200"

(* ----------------------------- C11, C12 -------------------------------- *)
\* A handler called the gateway, which answered a mapping.
MergeAnswered ==
    /\ phase = "done" /\ resp.status = "200" /\ resp.reranked
    /\ gateway \in GatewayAnswers

\* The categories of the response, its topK, and the candidates the
\* gateway was given for a pool.
MergedCats ==
    IF resp.op = "by_positions" THEN Range(resp.target_cats) ELSE KnownCategories

MergeTopK == IF resp.op = "by_positions" THEN req.final_k ELSE req.maxPerCategory

GatewayCand(pool) == IF resp.op = "by_positions" THEN RerankCand(pool, req) ELSE pool

\* The pool items of the ids the gateway listed, in the gateway's order.
RankedPart(pool) ==
    LET known == SelectSeq(RerankIds(GatewayCand(pool)),
                           LAMBDA id : \E it \in Range(pool) : it.id = id)
    IN  [i \in DOMAIN known |-> CHOOSE it \in Range(pool) : it.id = known[i]]

\* The pool items the gateway did not list, in their original order.
UnrankedPart(pool) ==
    SelectSeq(pool, LAMBDA it : it \notin Range(RankedPart(pool)))

MergedList(pool) ==
    IF Len(RankedPart(pool)) < MergeTopK
    THEN Take(RankedPart(pool) \o UnrankedPart(pool), MergeTopK)
    ELSE RankedPart(pool)

\* The list d, filled up to k with the pool items whose keys it lacks.
ToppedUp(d, pool, k) ==
    Take(d \o SelectSeq(pool, LAMBDA it : Key(it) \notin KeysOf(d)), k)

ListsAnswered ==
    /\ phase = "done" /\ resp.status = "200"
    /\ resp.op \in {"upload", "fitting"}
       \/ (resp.op = "by_positions" /\ resp.target_cats # <<>>)

\* C12: in every terminal state of the rerank step and for every gateway
\* answer (more than topK ids, unknown ids, a repeated id), the list of a
\* category holds at most topK items, and at least one whenever the
\* candidate pool of the category is not empty.
C12_BoundedAndNonEmpty ==
    ListsAnswered =>
        \A c \in MergedCats :
            /\ Len(resp.by_cat[c]) <= MergeTopK
            /\ resp.pools[c] # <<>> => resp.by_cat[c] # <<>>

(* ----------------------------- C13, C14 -------------------------------- *)
\* C13: a recommender whose load found the catalog (the product table) and
\* the embedding rows of different lengths is unavailable from then on,
\* whatever is reloaded later, and each of its recommend /
\* recommend_by_embedding calls raises the unavailable error: none returns a
\* list.
C13_MismatchStaysUnavailable ==
    /\ loads.pos.catalog # loads.pos.rows =>
          /\ ~PosAvailable(posRec)
          /\ resp.op = "pos" => (resp.status = "RuntimeError" /\ resp.items = <<>>)
    /\ loads.db.products # loads.db.rows =>
          /\ ~DbAvailable(dbRec)
          /\ resp.op \in {"db", "db_embedding"} =>
                (resp.status = "RuntimeError" /\ resp.items = <<>>)

\* C13 witness: the file-based load found a non-empty catalog and a
\* non-empty embedding file of different lengths, the catalog was reloaded
\* since and now has as many entries as the embedding file has rows, and a
\* recommend call still raised the unavailable error.
C13_Witness ==
    /\ loads.pos.catalog # loads.pos.rows
    /\ loads.pos.rows > 0 /\ loads.pos.catalog > 0
    /\ Len(catalog) = loads.pos.rows
    /\ resp.op = "pos" /\ resp.status = "RuntimeError"

\* C14: whenever a recommender is available, the catalog it maps result
\* positions to has as many entries as its embedding matrix has rows and
\* its price array has elements (the file-based recommender maps through
\* the catalog of CatalogService, the DB-backed one through its products),
\* and every position returned lies in [0, catalog size).
C14_AvailableMeansAligned ==
    /\ PosAvailable(posRec) =>
          /\ Len(catalog) = Len(posRec.emb_norm)
          /\ Len(catalog) = Len(posRec.prices)
          /\ (resp.op = "pos" /\ resp.status = "ok") =>
                \A i \in DOMAIN resp.items :
                    IntOf(resp.items[i].id) \in 0..(Len(catalog) - 1)
    /\ DbAvailable(dbRec) =>
          /\ Len(dbRec.products) = Len(dbRec.emb_norm)
          /\ Len(dbRec.products) = Len(dbRec.prices)
          /\ (resp.op \in {"db", "db_embedding"} /\ resp.status = "ok") =>
                \A i \in DOMAIN resp.items :
                    resp.items[i].pos \in 0..(Len(dbRec.products) - 1)

(* ----------------------------- C15, C16 -------------------------------- *)
\* A seed of the request lies outside [0, N), N the size of the catalog.
SeedOutOfRange ==
    \E i \in DOMAIN req.positions :
        req.positions[i] < 0 \/ req.positions[i] >= Len(catalog)

\* C15: a by-positions request with a seed outside [0, N) is rejected,
\* whichever of the three providers are available (each holding the N
\* products of the catalog): the caller gets an error and no list; the
\* seed is not dropped.
C15_OutOfRangeRejected ==
    (phase = "done" /\ resp.op = "by_positions" /\ SeedOutOfRange) =>
        /\ resp.status \in {"500", "503"}
        /\ resp.items = <<>>

\* C15 witness: a seed in range and one out of range, the three providers
\* up, and the request answered with an error.
C15_Witness ==
    /\ phase = "done" /\ resp.op = "by_positions" /\ SeedOutOfRange
    /\ \E i \in DOMAIN req.positions : req.positions[i] \in 0..(Len(catalog) - 1)
    /\ DbAvailable(dbRec) /\ PosAvailable(posRec) /\ extUp
    /\ resp.status = "500"

\* C16: a position-based request with an empty seed list is rejected:
\* PosRecommender.recommend, DbPosRecommender.recommend and the by-positions
\* handler return no list for positions = [].
C16_EmptySeedsRejected ==
    (phase \in {"done", "rec_done"} /\ req.positions = <<>>) =>
        resp.status \notin {"ok", "200"}

(* -------------------------------- C17 ---------------------------------- *)
\* The products of a returned list, in order (id = str(index) in both).
RankedIds(items) == [i \in DOMAIN items |-> items[i].id]

\* C17: both recommenders anchor the price term at the mean price of the
\* seeds, so on the same catalog, embeddings, seeds and parameters the
\* ranking DbPosRecommender.recommend returns is a ranking
\* PosRecommender.recommend returns.
C17_SameRanking ==
    (phase = "rec_done" /\ resp.op = "db" /\ resp.status = "ok") =>
        \E r \in PosRecommend(posRec, catalog, req, req.top_k) :
            /\ r.status = "ok"
            /\ RankedIds(r.items) = RankedIds(resp.items)

(* -------------------------------- C18 ---------------------------------- *)
\* The number of items of a list whose normalized category is c.
HeldIn(items, c) ==
    Cardinality({i \in DOMAIN items : NormalizeCategory(items[i].category) = c})

\* C18: at the end of a by-positions request with target categories, every
\* target category holds at most final_k items in the response, and fewer
\* than final_k only if every item of its candidate pool is already in the
\* response (by identity key).
C18_QuotaFilledPerCategory ==
    (HandlerDone /\ resp.target_cats # <<>>) =>
        \A c \in Range(resp.target_cats) :
            /\ HeldIn(resp.items, c) <= req.final_k
            /\ HeldIn(resp.items, c) < req.final_k =>
                  KeysOf(resp.pools[c]) \subseteq KeysOf(resp.items)

(* -------------------------------- C19 ---------------------------------- *)
\* The candidates category c has before the catalog backfill, given the
\* pool and the answer of the boosting re-query.
HadCandidates(po, b, c) == SortByScoreDesc(BoostedPool(po.items, b, c, req), <<>>)

\* The boosting re-query of the request raises, and a target category of
\* the pool is short enough to ask for it.
BoosterRaised(po, b) ==
    /\ b.status # "ok"
    /\ \E c \in Range(TargetCats(req)) : Len(OfCategory(po.items, c)) < req.final_k

\* The backfill of a target category raises: the category has candidates,
\* fewer than final_k, and the first catalog entry of the category has a
\* malformed price.
BackfillRaised(po, b) ==
    \E c \in Range(TargetCats(req)) :
        /\ HadCandidates(po, b, c) # <<>>
        /\ Len(HadCandidates(po, b, c)) < req.final_k
        /\ OfCategory(catalog, c)[1].price = Malformed

\* C19: if the boosting re-query or the catalog backfill raises, the
\* request does not fail: it is answered 200, every category keeps the
\* candidates it already had (a raising booster adds none), in score order
\* at the head of its pool, and every category that had candidates gets
\* items.
C19_BoostFailureNotFatal ==
    (/\ phase = "done" /\ resp.op = "by_positions"
     /\ \E po \in ProviderChain(req), b \in Boosted(req) :
           po.status = "pool" /\ (BoosterRaised(po, b) \/ BackfillRaised(po, b))) =>
        /\ resp.status = "200"
        /\ \E qo \in ProviderChain(req), b \in Boosted(req) :
              /\ qo.status = "pool"
              /\ \A c \in Range(TargetCats(req)) :
                    LET had == HadCandidates(qo, b, c)
                    IN  /\ b.status # "ok" =>
                            had = SortByScoreDesc(OfCategory(qo.items, c), <<>>)
                        /\ Take(resp.pools[c], Len(had)) = had
                        /\ had # <<>> => resp.by_cat[c] # <<>>

\* C19 witness: the booster raised for a category that kept its one
\* candidate and was then filled from the catalog.
C19_Witness ==
    /\ phase = "done" /\ resp.op = "by_positions" /\ resp.status = "200"
    /\ \E po \in ProviderChain(req), b \in Boosted(req) :
          /\ po.status = "pool" /\ BoosterRaised(po, b)
          /\ \E c \in Range(TargetCats(req)) :
                /\ Len(OfCategory(po.items, c)) = 1
                /\ Len(resp.pools[c]) > 1
                /\ resp.pools[c][1] = OfCategory(po.items, c)[1]

\* C19 witness of the backfill: a category short of final_k whose first
\* catalog entry has a malformed price is answered with what it had.
C19_BackfillWitness ==
    /\ phase = "done" /\ resp.op = "by_positions" /\ resp.status = "200"
    /\ \E po \in ProviderChain(req), b \in Boosted(req) :
          /\ po.status = "pool" /\ BackfillRaised(po, b)
          /\ \E c \in Range(TargetCats(req)) :
                /\ OfCategory(catalog, c) # <<>>
                /\ OfCategory(catalog, c)[1].price = Malformed
                /\ resp.pools[c] # <<>>
                /\ Len(resp.pools[c]) < req.final_k

(* -------------------------------- C20 ---------------------------------- *)
\* C20: serving a request (by positions, by embedding, from upload, from
\* fitting) leaves the shared snapshot unchanged: the catalog list, the
\* product rows, the embedding matrices and the price arrays are the same
\* before and after.
C20_SnapshotUnchanged ==
    [][catalog' = catalog /\ dbRec' = dbRec /\ posRec' = posRec]_vars

\* C20 witness: a request answered by the DB-backed recommender with two
\* scored items or more, in an order that is not that of the table.
C20_Witness ==
    /\ phase = "done" /\ resp.status \in {"200", "ok"}
    /\ DbAvailable(dbRec)
    /\ Len(resp.items) >= 2
    /\ resp.items[1].pos > resp.items[2].pos
    /\ resp.items[1].score > 0

(* -------------------------------- C21 ---------------------------------- *)
\* C21: for all alpha >= 0 and every pair of non-negative prices the price
\* score satisfies 0 < priceScore <= 1, and priceScore = 1 exactly when
\* alpha = 0 or price = queryPrice.
C21_PriceScoreBounds ==
    phase = "price_done" =>
        /\ ~resp.zero
        /\ resp.negExp >= 0
        /\ resp.negExp = 0 <=> (req.alpha = 0 \/ req.k = req.qk)

(* -------------------------------- C22 ---------------------------------- *)
\* C22: _sanitize_parameters drops every entry whose value is None and
\* gives every other entry as a string: a non-string value in its string
\* form (the integer 4 as "4"), a string unchanged.
C22_NonStringsBecomeStrings ==
    phase = "sanitize_done" =>
        /\ DOMAIN resp = {k \in DOMAIN req : req[k].type # "NoneType"}
        /\ \A k \in DOMAIN resp : resp[k] = [type |-> "str", text |-> req[k].text]

(* -------------------------------- C23 ---------------------------------- *)
\* The URIs found in prediction i: its direct field and the entries of
\* its videos.
FoundIn(i) ==
    {req.predictions[i].videoUri}
    \cup {req.predictions[i].videos[j].uri : j \in DOMAIN req.predictions[i].videos}
    \cup {req.predictions[i].videos[j].videoUri : j \in DOMAIN req.predictions[i].videos}

FoundInPredictions == UNION {FoundIn(i) : i \in DOMAIN req.predictions}

\* Where prediction i holds u: <<i, 0, 0>> for the direct field, <<i, j, 1>>
\* and <<i, j, 2>> for uri and videoUri of its j-th video.
MetIn(u, i) ==
    (IF req.predictions[i].videoUri = u THEN {<<i, 0, 0>>} ELSE {})
    \cup {<<i, j, 1>> : j \in {m \in DOMAIN req.predictions[i].videos :
                                  req.predictions[i].videos[m].uri = u}}
    \cup {<<i, j, 2>> : j \in {m \in DOMAIN req.predictions[i].videos :
                                  req.predictions[i].videos[m].videoUri = u}}

MetAt(u) == UNION {MetIn(u, i) : i \in DOMAIN req.predictions}

Earlier(a, b) ==
    \/ a[1] < b[1]
    \/ a[1] = b[1] /\ a[2] < b[2]
    \/ a[1] = b[1] /\ a[2] = b[2] /\ a[3] < b[3]

\* u is met for the first time before v is.
FirstMetBefore(u, v) ==
    \E a \in MetAt(u) : \A b \in MetAt(v) : Earlier(a, b)

\* C23: collect_video_uris returns every video URI found in the
\* predictions, direct fields and nested entries of videos, each exactly
\* once, in the order in which they are first encountered.
C23_EveryUriOnceInOrder ==
    phase = "collect_done" =>
        /\ FoundInPredictions \ {""} \subseteq Range(resp)
        /\ Cardinality(Range(resp)) = Len(resp)
        /\ \A i, j \in DOMAIN resp :
              (i < j /\ resp[i] \in FoundInPredictions /\ resp[j] \in FoundInPredictions)
                  => FirstMetBefore(resp[i], resp[j])

\* C23 witness: the shape of the test, with a URI met twice: a direct
\* field, then a video whose uri is new and whose videoUri repeats the
\* direct field of the first prediction.
C23_Witness ==
    /\ phase = "collect_done"
    /\ Len(req.predictions) = 2
    /\ req.predictions[1].videoUri # ""
    /\ req.predictions[2].videos # <<>>
    /\ req.predictions[2].videos[1].videoUri = req.predictions[1].videoUri
    /\ req.predictions[2].videos[1].uri \notin {"", req.predictions[1].videoUri}
    /\ resp = <<req.predictions[1].videoUri, req.predictions[2].videos[1].uri>>

(* -------------------------------- C24 ---------------------------------- *)
\* C24: no item in the response of a by-positions request is one of the
\* request's seed positions, whether it came with the provider's pool,
\* through the boosting re-query or through the catalog backfill.
C24_NoSeedInResponse ==
    HandlerDone =>
        \A i \in DOMAIN resp.items : resp.items[i].pos \notin Range(req.positions)

\* C25: a by-positions request takes its pool from the first provider, in
\* the order DB-backed, file-based, external, that is available and
\* answers: the file-based one is the source only if the DB-backed one gave
\* no pool, the external one only if neither did, and with no provider
\* available the request ends with status 503 and no items.
DbAnswers ==
    DbAvailable(dbRec) /\ \E d \in DbRecommend(dbRec, req, req.top_k) : d.status = "ok"

PosAnswers ==
    PosAvailable(posRec)
        /\ \E p \in PosRecommend(posRec, catalog, req, req.top_k) : p.status = "ok"

C25_ProviderOrder ==
    (phase = "done" /\ resp.op = "by_positions") =>
        /\ DbAnswers => resp.source = "db"
        /\ resp.source = "pos" => ~DbAnswers /\ PosAnswers
        /\ (~DbAnswers /\ PosAnswers) => resp.source = "pos"
        /\ resp.source = "ext" => ~DbAnswers /\ ~PosAnswers /\ extUp
        /\ (~DbAvailable(dbRec) /\ ~PosAvailable(posRec) /\ ~extUp)
              => resp.status = "503" /\ resp.items = <<>>

C25_Witness ==
    /\ phase = "done" /\ resp.op = "by_positions" /\ resp.status = "200"
    /\ resp.source = "ext" /\ resp.items # <<>>
    /\ DbAvailable(dbRec) /\ PosAvailable(posRec)

\* C26: DbPosRecommender.recommend_by_embedding with category c and top_k k
\* returns exactly min(k, number of products whose normalized category is
\* c) items, all of category c, in non-increasing score order, and an
\* empty list when no product has category c.
EmbeddingAnswered ==
    /\ phase = "answered" /\ resp.op = "db_embedding" /\ resp.status = "ok"
    /\ req.category # ""

OfSlot ==
    Cardinality({i \in DOMAIN dbRec.products :
                    NormalizeSlot(dbRec.products[i].category) = req.category})

OfSlotInScoreOrder ==
    /\ \A i \in DOMAIN resp.items :
          NormalizeSlot(resp.items[i].category) = req.category
    /\ \A i \in DOMAIN resp.items : \A j \in DOMAIN resp.items :
          i < j => resp.items[i].score >= resp.items[j].score
    /\ OfSlot = 0 => resp.items = <<>>

SlotAnswered == phase = "done" /\ resp.op \in {"upload", "fitting"} /\ resp.status = "200"

ActiveSlots ==
    IF resp.op = "upload" THEN RequestedSlots(req.clothing, req.selected)
    ELSE FittingSlots(req)

C27_InactiveSlotsEmpty ==
    SlotAnswered =>
        /\ \A c \in KnownCategories : c \notin ActiveSlots => resp.by_cat[c] = <<>>
        /\ ActiveSlots = {} => \A c \in KnownCategories : resp.by_cat[c] = <<>>

\* What find_similar and the embedded lists hold for category c before the
\* gating.
HeldBeforeGating(c) ==
    \E cands \in UngatedCandidates(
                    IF resp.op = "upload" THEN UploadAnalysis(req)
                    ELSE FittingAnalysis(req), ActiveSlots, req) : cands[c] # <<>>

C27_Witness ==
    /\ SlotAnswered /\ resp.reranked
    /\ \E c \in KnownCategories \ ActiveSlots : HeldBeforeGating(c)
    /\ \E c \in ActiveSlots : resp.by_cat[c] # <<>>
    /\ \E i \in DOMAIN req.selected : IsNumeric(req.selected[i].value)

\* C28: after every load and every reload of CatalogService the entry at
\* index i has pos = i and id = str(i), so the ids are pairwise distinct
\* and every pos is in [0, catalog size).
C28_IndexIdentity ==
    /\ \A i \in DOMAIN catalog :
          /\ catalog[i].pos = i - 1 /\ catalog[i].id = Str(i - 1)
          /\ 0 <= catalog[i].pos /\ catalog[i].pos < Len(catalog)
    /\ \A i \in DOMAIN catalog : \A j \in DOMAIN catalog :
          i # j => catalog[i].id # catalog[j].id

C28_Witness ==
    /\ phase = "serving" /\ resp.op = "reload" /\ req.file.read
    /\ Len(catalog) >= 2
    /\ \E i \in DOMAIN req.file.data :
          "id" \in DOMAIN req.file.data[i] /\ req.file.data[i].id # Str(i - 1)

\* C29: reload() swaps the snapshot atomically: when loading succeeds it
\* returns True and get_all() gives the new catalog; when loading fails it
\* returns False and get_all() still gives the catalog loaded before.
C29_ReloadAtomic ==
    (phase = "serving" /\ resp.op = "reload") =>
        IF req.file.read
        THEN resp.status = "True" /\ catalog = CatalogLoad(req.file.data)
        ELSE resp.status = "False" /\ catalog = req.previous

\* C30: _post_with_retry always terminates after at most max_retries + 1
\* HTTP requests: it returns the first successful response, raises at once
\* on a status outside {408, 429, 500, 502, 503, 504}, and raises after the
\* last attempt when every attempt failed with a retryable status or a
\* transport error.
RetryableFailure(o) ==
    o.kind = "transport" \/ (o.kind = "status" /\ o.code \in {408, 429, 500, 502, 503, 504})

PostBounded ==
    LET made == resp.requests
        last == made[Len(made)]
    IN  /\ Len(made) <= req.max_retries + 1
        /\ \A i \in 1..(Len(made) - 1) : RetryableFailure(made[i])
        /\ phase = "post_loop" =>
              resp.result = "running" /\ \A i \in DOMAIN made : RetryableFailure(made[i])
        /\ phase = "post_done" =>
              /\ resp.result \in {"returned", "raised"}
              /\ resp.result = "returned" <=> (made # <<>> /\ last.kind = "success")
              /\ (made # <<>> /\ last.kind = "status" /\ ~RetryableFailure(last))
                    => resp.raised = last.code
              /\ (\A i \in DOMAIN made : RetryableFailure(made[i]))
                    => Len(made) = req.max_retries + 1

C30_TerminatesWithinRetries == []PostBounded /\ <>(phase = "post_done")

C30_Witness ==
    /\ phase = "post_done" /\ resp.result = "raised"
    /\ Len(resp.requests) = req.max_retries + 1 /\ req.max_retries >= 2
    /\ \A i \in DOMAIN resp.requests : RetryableFailure(resp.requests[i])
    /\ \E i \in DOMAIN resp.requests : resp.requests[i].kind = "transport"
    /\ \E i \in DOMAIN resp.requests : resp.requests[i].kind = "status"

====
